---- MODULE Spec2Model ----
(***************************************************************************)
(* extl::expected<T, E> and extl::expected<void, E>                         *)
(* (ExTL/include/extl/expected/expected.hpp) as a state machine over a      *)
(* small pool of objects.  Every object carries its tag `_has_value` and    *)
(* the two members of its anonymous union, `_value` and `_error`; a member  *)
(* that holds no constructed payload is Dead.  One action per constructor,  *)
(* accessor overload family and combinator, plus the destructor.  The       *)
(* library is modelled as built with assertions enabled: a failed           *)
(* assert() aborts the program.  Payload types are erased: values and       *)
(* errors are small integers, and a converting construction T(u) is the     *)
(* application of a conversion function chosen with the call.               *)
(* extl::status<E> and extl::always_success_status                          *)
(* (include/result/status.hpp) share the pool and run under StatusSpec.     *)
(* extl::storage<T> with construct_at / copy_at (StorageSpec), the legacy   *)
(* extl::expected<T, E, H> (LegacySpec), construction from a whole          *)
(* expected<U, G> with its overload resolution (FromExpectedSpec) and the   *)
(* compile-time queries of the strictness policy (TraitSpec) follow.        *)
(***************************************************************************)
EXTENDS Integers, FiniteSets, Sequences, TLC

MaxObj == 2
MaxVal == 1
MaxChain == 3

Dead == -1
DefaultT == 0

Obj == 1..MaxObj
Val == 0..MaxVal
Slot == Val \cup {Dead}

\* The four value categories of a receiver / of a reference.
Cats == {"&", "const&", "&&", "const&&"}

\* Conversions T(u), E(g), T(args...), static_cast<T>(d): the copy / move /
\* value-preserving one, and one that changes every value.
IdFn == [x \in Val |-> x]
ConvFns == {IdFn, [x \in Val |-> (x + 1) % (MaxVal + 1)]}

VARIABLES st, kind, _has_value, _has_error, _value, _error, ctorV, ctorE,
          last, aborted

objvars == <<st, kind, _has_value, _has_error, _value, _error, ctorV, ctorE>>
vars == <<st, kind, _has_value, _has_error, _value, _error, ctorV, ctorE,
          last, aborted>>

\* What a callable passed to and_then / or_else returns: an expected as its
\* constructor left it (kind "TE" for expected<U, E>).
OkRet(k, v) == [kind |-> k, tag |-> TRUE, val |-> v, err |-> Dead]
ErrRet(k, e) == [kind |-> k, tag |-> FALSE, val |-> Dead, err |-> e]

\* Callables passed to and_then / or_else: rk is the kind of expected the
\* callable's return type is, fn the result for each argument.  The
\* requires-clauses read the return type's error_type / value_type, which
\* only the primary template declares, so the return type is an
\* expected<U, E> with U not void.  The callables take their argument by
\* value, as those of test/expected/expected.cpp do.  One always succeeds;
\* the outcome of the other depends on the argument.
Bump(x) == (x + 1) % (MaxVal + 1)
BindFns ==
    {[rk |-> "TE", fn |-> [x \in Val |-> OkRet("TE", Bump(x))]],
     [rk |-> "TE", fn |-> [x \in Val |-> IF x = 0 THEN ErrRet("TE", Bump(x))
                                         ELSE OkRet("TE", x)]]}

\* Callables passed to transform / transform_error: rk = "voidE" when the
\* callable returns void.
MapFns == {[rk |-> "TE", fn |-> c] : c \in ConvFns}
VoidFn == [rk |-> "voidE", fn |-> [x \in Val |-> Dead]]

\* Callables taking no argument, as passed to and_then / transform of an
\* expected<void, E> in test/expected/expected.cpp: one returns an ok
\* expected<void, E>, the other a plain value.
NullaryBindFn == [rk |-> "voidE", fn |-> [x \in Val |-> OkRet("voidE", Dead)]]
NullaryMapFn == [rk |-> "TE", fn |-> [x \in Val |-> MaxVal]]

\* The payload constructions and destructions of one object over its life.
NoLife == [ctorV |-> 0, ctorE |-> 0, dtorV |-> 0, dtorE |-> 0,
           liveV |-> FALSE, liveE |-> FALSE]

\* Record of the operation that produced the current state: the operation
\* and the overload (value category) called, its receiver or source src and
\* the object dst it constructed, src's tag and members before the call, the
\* argument arg and the conversion conv (of a converting constructor: conv
\* for the value, convE for the error) it comes with, the callable f and the
\* number of times it was invoked, what an observer returned, whether an
\* assert() failed, whether the call is ill-formed (names a member the
\* class does not declare, or a type by a name that is not declared), the
\* type name the call used, the copy and move constructions of the receiver's
\* payload the call made, and, for a destructor, the object's life.
\* The chain r0.op1(f1)...opn(fn) of and_then / transform calls, each on the
\* result of the one before, that the current state ends, counted from the
\* first step whose receiver was in the error state: its length len (counted
\* up to MaxChain), that receiver's error err, the result dst of the latest
\* step and the invocations calls of f since.
NoChain == [len |-> 0, err |-> Dead, dst |-> 0, calls |-> 0]
NoFn == [rk |-> "none", fn |-> [x \in Val |-> Dead]]

\* What the type traits report about one operation: plain is std::is_X_v,
\* nothrow is std::is_nothrow_X_v.  An operation that cannot throw is
\* possible.
NoCap == [plain |-> FALSE, nothrow |-> FALSE]
Caps == {c \in [plain : BOOLEAN, nothrow : BOOLEAN] : c.nothrow => c.plain}

\* The four forms in which the requires-clauses name a whole source
\* expected<U, G>.
WholeForms == {"expected&", "expected", "const expected&", "const expected"}

\* The compile-time facts a query about expected<T, E> and a source
\* expected<U, G> depends on: the build's EXTL_STRICT_CONSTRAINTS, the
\* queried operation cap (for a strict_*_v query), whether T is bool, T from
\* U and E from G in the reference form of the overload asked about, T from
\* the source expression itself (non-throwing or not), the forms of the
\* whole expected<U, G> that T is constructible / convertible from and that
\* unexpected<E> is constructible from.
NoQuery == [EXTL_STRICT_CONSTRAINTS |-> FALSE, cap |-> NoCap,
            T_is_bool |-> FALSE, T_from_U |-> NoCap, E_from_G |-> NoCap,
            T_from_src_nothrow |-> FALSE,
            T_constructible |-> {}, T_convertible |-> {},
            unexpected_constructible |-> {}]
NoLast == [op |-> "none", cat |-> "none", src |-> 0, dst |-> 0,
           preTag |-> FALSE, preVal |-> Dead, preErr |-> Dead,
           arg |-> Dead, conv |-> IdFn, convE |-> IdFn,
           ret |-> Dead, retTag |-> FALSE,
           asserted |-> FALSE, illformed |-> FALSE, name |-> "none",
           fcalls |-> 0, farg |-> Dead, f |-> NoFn,
           copies |-> 0, moves |-> 0, chain |-> NoChain, life |-> NoLife]

\* `last` for an operation on receiver / source object s.
Snap(opname, cat, s, d) ==
    [NoLast EXCEPT !.op = opname, !.cat = cat, !.src = s, !.dst = d,
                   !.preTag = _has_value[s], !.preVal = _value[s],
                   !.preErr = _error[s]]

Init ==
    /\ st = [o \in Obj |-> "unborn"]
    /\ kind = [o \in Obj |-> "none"]
    /\ _has_value = [o \in Obj |-> FALSE]
    /\ _has_error = [o \in Obj |-> FALSE]
    /\ _value = [o \in Obj |-> Dead]
    /\ _error = [o \in Obj |-> Dead]
    /\ ctorV = [o \in Obj |-> 0]
    /\ ctorE = [o \in Obj |-> 0]
    /\ last = NoLast
    /\ aborted = FALSE

\* Storage for a new object: the lowest free slot of the pool.
Fresh(d) == st[d] = "unborn" /\ \A o \in Obj : o < d => st[o] # "unborn"

Alive(o, k) == st[o] = "alive" /\ kind[o] = k

\* A payload after it has been the source of a move construction is valid
\* but unspecified: left as it was (a trivially movable type) or emptied.
\* Only a non-const rvalue selects T's move constructor; a copy leaves the
\* source unchanged.
MovedFrom(v) == {v, DefaultT}
SourceAfter(cat, v) == IF cat = "&&" THEN MovedFrom(v) ELSE {v}

\* Mutant: the rvalue overloads pass **this / error() without std::move.
SelectedCtor_NeverMove(cat) == "copy"

\* The constructor of T / E that overload resolution selects for an argument
\* of category cat (**this, error(), std::move(**this), std::move(error())
\* in the overload of that category): std::move of a const reference is a
\* const rvalue, which only the copy constructor accepts.
SelectedCtor(cat) == IF cat = "&&" THEN "move" ELSE "copy"

\* `last` for a call that hands the receiver's live payload, as a reference
\* of category cat, to a callable's parameter or to the constructor of the
\* result: one construction of a T or an E from it.
Handed(opname, cat, s, d) ==
    [Snap(opname, cat, s, d) EXCEPT
        !.copies = IF SelectedCtor(cat) = "copy" THEN 1 ELSE 0,
        !.moves = IF SelectedCtor(cat) = "move" THEN 1 ELSE 0]

\* The constructors' effect on the new object d: the mem-initializer of the
\* tag, and the union member(s) constructed (v, e: Dead when not
\* constructed).  vals and errs are the members of the other objects.
Emplace(d, k, tag, v, e, vals, errs) ==
    /\ st' = [st EXCEPT ![d] = "alive"]
    /\ kind' = [kind EXCEPT ![d] = k]
    /\ _has_value' = [_has_value EXCEPT ![d] = tag]
    /\ _value' = [vals EXCEPT ![d] = v]
    /\ _error' = [errs EXCEPT ![d] = e]
    /\ ctorV' = [ctorV EXCEPT ![d] = IF v # Dead THEN 1 ELSE 0]
    /\ ctorE' = [ctorE EXCEPT ![d] = IF e # Dead THEN 1 ELSE 0]
    /\ UNCHANGED _has_error

\* assert(cond) failed: the program aborts inside operation opname on o.
AssertFail(opname, cat, o) ==
    /\ aborted' = TRUE
    /\ last' = [Snap(opname, cat, o, 0) EXCEPT !.asserted = TRUE]
    /\ UNCHANGED objvars

\* assert(cond); Body
Asserting(cond, opname, cat, o, Body) ==
    IF cond THEN Body ELSE AssertFail(opname, cat, o)

\* has_value() / explicit operator bool(): return _has_value
has_value(o) == _has_value[o]

\* The assertion of operator*, operator-> and value(): assert(has_value())
ValueChecked(o) == has_value(o)

\* The assertion of error(): assert(not has_value())
ErrorChecked(o) == ~has_value(o)

\* `last.chain` after an and_then / transform call on receiver s with
\* result d that invoked its callable calls times: the call extends the
\* chain when s is the result of the chain's latest step, starts one when s
\* is in the error state, and belongs to no such chain otherwise.
ChainStep(s, d, calls) ==
    IF last.chain.len > 0 /\ last.chain.dst = s
    THEN [len |-> IF last.chain.len < MaxChain THEN last.chain.len + 1
                  ELSE MaxChain,
          err |-> last.chain.err, dst |-> d,
          calls |-> IF last.chain.calls + calls < MaxChain
                    THEN last.chain.calls + calls ELSE MaxChain]
    ELSE IF ~has_value(s)
         THEN [len |-> 1, err |-> _error[s], dst |-> d, calls |-> calls]
         ELSE NoChain

----------------------------------------------------------------------------
\* Constructors of expected<T, E>.

\* expected(): _value(), _has_value(true)
DefaultCtor(d) ==
    /\ ~aborted /\ Fresh(d)
    /\ Emplace(d, "TE", TRUE, DefaultT, Dead, _value, _error)
    /\ last' = [NoLast EXCEPT !.op = "default_ctor", !.dst = d]
    /\ UNCHANGED aborted

\* Mutant: the value constructor value-initialises _value and drops v.
ValueCtor_DropsArgument(d, v, conv) ==
    /\ ~aborted /\ Fresh(d)
    /\ Emplace(d, "TE", TRUE, DefaultT, Dead, _value, _error)
    /\ last' = [NoLast EXCEPT !.op = "value_ctor", !.dst = d, !.arg = v,
                              !.conv = conv]
    /\ UNCHANGED aborted

\* expected(U&& v): _value(std::forward<U>(v)), _has_value(true)
\* conv is T's constructor from U; IdFn when U is T (copy / move of v).
ValueCtor(d, v, conv) ==
    /\ ~aborted /\ Fresh(d)
    /\ Emplace(d, "TE", TRUE, conv[v], Dead, _value, _error)
    /\ last' = [NoLast EXCEPT !.op = "value_ctor", !.dst = d, !.arg = v,
                              !.conv = conv]
    /\ UNCHANGED aborted

\* Mutant: the constructor from unexpected sets _has_value(true).
UnexpectedCtor_TagTrue(d, cat, g, conv) ==
    /\ ~aborted /\ Fresh(d)
    /\ cat \in {"const&", "&&"}
    /\ Emplace(d, "TE", TRUE, Dead, conv[g], _value, _error)
    /\ last' = [NoLast EXCEPT !.op = "unexpected_ctor", !.cat = cat, !.dst = d,
                              !.arg = g, !.conv = conv]
    /\ UNCHANGED aborted

\* expected(const unexpected<G>& e) / expected(unexpected<G>&& e):
\* _error(e.error()) / _error(std::move(e.error())), _has_value(false)
UnexpectedCtor(d, cat, g, conv) ==
    /\ ~aborted /\ Fresh(d)
    /\ cat \in {"const&", "&&"}
    /\ Emplace(d, "TE", FALSE, Dead, conv[g], _value, _error)
    /\ last' = [NoLast EXCEPT !.op = "unexpected_ctor", !.cat = cat, !.dst = d,
                              !.arg = g, !.conv = conv]
    /\ UNCHANGED aborted

\* expected(in_place_t, Args&&... args): _value(args...), _has_value(true)
InPlaceCtor(d, a, conv) ==
    /\ ~aborted /\ Fresh(d)
    /\ Emplace(d, "TE", TRUE, conv[a], Dead, _value, _error)
    /\ last' = [NoLast EXCEPT !.op = "in_place_ctor", !.dst = d, !.arg = a,
                              !.conv = conv]
    /\ UNCHANGED aborted

\* expected(unexpect_t, Args&&... args): _error(args...), _has_value(false)
UnexpectCtor(d, a, conv) ==
    /\ ~aborted /\ Fresh(d)
    /\ Emplace(d, "TE", FALSE, Dead, conv[a], _value, _error)
    /\ last' = [NoLast EXCEPT !.op = "unexpect_ctor", !.dst = d, !.arg = a,
                              !.conv = conv]
    /\ UNCHANGED aborted

\* Mutant: the else branch constructs the value member from other.error().
FromExpected_ErrorIntoValue(opname, d, s, cat, convT, convE) ==
    /\ ~aborted /\ Fresh(d)
    /\ LET tag == has_value(s) IN
       IF tag
       THEN /\ \E sv \in SourceAfter(cat, _value[s]) :
                   Emplace(d, "TE", tag, convT[_value[s]], Dead,
                           [_value EXCEPT ![s] = sv], _error)
            /\ last' = [Snap(opname, cat, s, d) EXCEPT
                            !.conv = convT, !.convE = convE]
            /\ UNCHANGED aborted
       ELSE /\ \E se \in SourceAfter(cat, _error[s]) :
                   Emplace(d, "TE", tag, convE[_error[s]], Dead,
                           _value, [_error EXCEPT ![s] = se])
            /\ last' = [Snap(opname, cat, s, d) EXCEPT
                            !.conv = convT, !.convE = convE]
            /\ UNCHANGED aborted

\* Mutant: the else branch converts the error with the value's conversion.
FromExpected_ErrorViaValueConversion(opname, d, s, cat, convT, convE) ==
    /\ ~aborted /\ Fresh(d)
    /\ LET tag == has_value(s) IN
       IF tag
       THEN /\ \E sv \in SourceAfter(cat, _value[s]) :
                   Emplace(d, "TE", tag, convT[_value[s]], Dead,
                           [_value EXCEPT ![s] = sv], _error)
            /\ last' = [Snap(opname, cat, s, d) EXCEPT
                            !.conv = convT, !.convE = convE]
            /\ UNCHANGED aborted
       ELSE /\ \E se \in SourceAfter(cat, _error[s]) :
                   Emplace(d, "TE", tag, Dead, convT[_error[s]],
                           _value, [_error EXCEPT ![s] = se])
            /\ last' = [Snap(opname, cat, s, d) EXCEPT
                            !.conv = convT, !.convE = convE]
            /\ UNCHANGED aborted

\* The body shared by the four constructors from another expected:
\*   : _has_value(other.has_value())
\*   { if (_has_value) construct_at(&_value, [move](*other));
\*     else            construct_at(&_error, [move](other.error())); }
\* cat is the category of the reference passed to T's / E's constructor.
FromExpected(opname, d, s, cat, convT, convE) ==
    /\ ~aborted /\ Fresh(d)
    /\ LET tag == has_value(s) IN
       IF tag
       THEN Asserting(ValueChecked(s), opname, cat, s,
                /\ \E sv \in SourceAfter(cat, _value[s]) :
                       Emplace(d, "TE", tag, convT[_value[s]], Dead,
                               [_value EXCEPT ![s] = sv], _error)
                /\ last' = [Snap(opname, cat, s, d) EXCEPT
                                !.conv = convT, !.convE = convE]
                /\ UNCHANGED aborted)
       ELSE Asserting(ErrorChecked(s), opname, cat, s,
                /\ \E se \in SourceAfter(cat, _error[s]) :
                       Emplace(d, "TE", tag, Dead, convE[_error[s]],
                               _value, [_error EXCEPT ![s] = se])
                /\ last' = [Snap(opname, cat, s, d) EXCEPT
                                !.conv = convT, !.convE = convE]
                /\ UNCHANGED aborted)

\* Mutant: the copy constructor copies *other whatever the tag.
CopyCtor_AlwaysValue(d, s) ==
    /\ ~aborted /\ Fresh(d) /\ Alive(s, "TE")
    /\ Asserting(ValueChecked(s), "copy_ctor", "const&", s,
           /\ Emplace(d, "TE", has_value(s), _value[s], Dead, _value, _error)
           /\ last' = Snap("copy_ctor", "const&", s, d)
           /\ UNCHANGED aborted)

\* expected(const expected& other)
CopyCtor(d, s) ==
    /\ Alive(s, "TE")
    /\ FromExpected("copy_ctor", d, s, "const&", IdFn, IdFn)

\* Mutant: the move constructor marks the source as holding no value.
MoveCtor_ResetsSource(d, s) ==
    /\ ~aborted /\ Fresh(d) /\ Alive(s, "TE")
    /\ st' = [st EXCEPT ![d] = "alive"]
    /\ kind' = [kind EXCEPT ![d] = "TE"]
    /\ _has_value' = [_has_value EXCEPT ![d] = has_value(s), ![s] = FALSE]
    /\ _value' = [_value EXCEPT ![d] = _value[s]]
    /\ _error' = [_error EXCEPT ![d] = _error[s]]
    /\ ctorV' = [ctorV EXCEPT ![d] = IF _value[s] # Dead THEN 1 ELSE 0]
    /\ ctorE' = [ctorE EXCEPT ![d] = IF _error[s] # Dead THEN 1 ELSE 0]
    /\ last' = Snap("move_ctor", "&&", s, d)
    /\ UNCHANGED <<_has_error, aborted>>

\* expected(expected&& other)
MoveCtor(d, s) ==
    /\ Alive(s, "TE")
    /\ FromExpected("move_ctor", d, s, "&&", IdFn, IdFn)

\* template <U, G> expected(const expected<U, G>& other)
ConvCopyCtor(d, s, convT, convE) ==
    /\ Alive(s, "TE")
    /\ FromExpected("conv_copy_ctor", d, s, "const&", convT, convE)

\* template <U, G> expected(expected<U, G>&& other)
ConvMoveCtor(d, s, convT, convE) ==
    /\ Alive(s, "TE")
    /\ FromExpected("conv_move_ctor", d, s, "&&", convT, convE)

\* The end of an object's lifetime: its storage is released (the pool slot
\* can hold a new object); `last.life` keeps what its constructors and its
\* destructor did to the two union members (v, e: the members as the
\* destructor left them; dv, de: the destroy_at calls it made).  The end of
\* an earlier receiver of a chain does not interrupt the chain.
Release(opname, o, v, e, dv, de) ==
    /\ st' = [st EXCEPT ![o] = "unborn"]
    /\ kind' = [kind EXCEPT ![o] = "none"]
    /\ _has_value' = [_has_value EXCEPT ![o] = FALSE]
    /\ _value' = [_value EXCEPT ![o] = Dead]
    /\ _error' = [_error EXCEPT ![o] = Dead]
    /\ ctorV' = [ctorV EXCEPT ![o] = 0]
    /\ ctorE' = [ctorE EXCEPT ![o] = 0]
    /\ UNCHANGED _has_error
    /\ last' = [Snap(opname, "none", o, 0) EXCEPT
                    !.life = [ctorV |-> ctorV[o], ctorE |-> ctorE[o],
                              dtorV |-> dv, dtorE |-> de,
                              liveV |-> v # Dead, liveE |-> e # Dead],
                    !.chain = IF last.chain.dst = o THEN NoChain
                              ELSE last.chain]

\* Mutant: the destructor destroys the value member whatever the tag.
Destructor_IgnoresTag(o) ==
    /\ ~aborted /\ Alive(o, "TE")
    /\ Release("dtor", o, Dead, _error[o], 1, 0)
    /\ UNCHANGED aborted

\* ~expected(): if (has_value()) destroy_at(&_value); else destroy_at(&_error);
Destructor(o) ==
    /\ ~aborted /\ Alive(o, "TE")
    /\ IF has_value(o)
       THEN Release("dtor", o, Dead, _error[o], 1, 0)
       ELSE Release("dtor", o, _value[o], Dead, 0, 1)
    /\ UNCHANGED aborted

----------------------------------------------------------------------------
\* Observers of expected<T, E>.

\* has_value() / explicit operator bool()
HasValue(o) ==
    /\ ~aborted /\ st[o] = "alive"
    /\ last' = [Snap("has_value", "const&", o, 0) EXCEPT !.retTag = has_value(o)]
    /\ UNCHANGED <<objvars, aborted>>

\* An accessor of the value member: assert(has_value()); return [move](_value)
ValueAccessor(opname, o, cat) ==
    /\ ~aborted /\ Alive(o, "TE")
    /\ Asserting(ValueChecked(o), opname, cat, o,
           /\ last' = [Snap(opname, cat, o, 0) EXCEPT !.ret = _value[o]]
           /\ UNCHANGED <<objvars, aborted>>)

\* operator->() const / operator->()
OperatorArrow(o, cat) ==
    /\ cat \in {"const&", "&"}
    /\ ValueAccessor("operator->", o, cat)

\* operator*() const& / & / const&& / &&
OperatorStar(o, cat) ==
    /\ cat \in Cats
    /\ ValueAccessor("operator*", o, cat)

\* value() const& / & / const&& / &&
Value(o, cat) ==
    /\ cat \in Cats
    /\ ValueAccessor("value", o, cat)

\* Mutant: error() carries value()'s assertion, assert(has_value()).
Error_AssertsHasValue(o, cat) ==
    /\ ~aborted /\ Alive(o, "TE")
    /\ Asserting(ValueChecked(o), "error", cat, o,
           /\ last' = [Snap("error", cat, o, 0) EXCEPT !.ret = _error[o]]
           /\ UNCHANGED <<objvars, aborted>>)

\* error() const& / & / const&& / &&:
\* assert(not has_value()); return [move](_error)
Error(o, cat) ==
    /\ ~aborted /\ Alive(o, "TE")
    /\ Asserting(ErrorChecked(o), "error", cat, o,
           /\ last' = [Snap("error", cat, o, 0) EXCEPT !.ret = _error[o]]
           /\ UNCHANGED <<objvars, aborted>>)

\* value_or(U&& default_value) const& / &&:
\*   if (has_value()) return [move](**this);
\*   return static_cast<T>(default_value);
\* The fallback and its conversion are read on the second path only.
ValueOr(o, cat) ==
    /\ ~aborted /\ Alive(o, "TE")
    /\ cat \in {"const&", "&&"}
    /\ IF has_value(o)
       THEN Asserting(ValueChecked(o), "value_or", cat, o,
                /\ \E sv \in SourceAfter(cat, _value[o]) :
                       _value' = [_value EXCEPT ![o] = sv]
                /\ last' = [Handed("value_or", cat, o, 0) EXCEPT
                                !.ret = _value[o]]
                /\ UNCHANGED <<st, kind, _has_value, _has_error, _error,
                               ctorV, ctorE, aborted>>)
       ELSE /\ \E dflt \in Val, conv \in ConvFns :
                   last' = [Snap("value_or", cat, o, 0) EXCEPT
                                !.arg = dflt, !.conv = conv,
                                !.ret = conv[dflt]]
            /\ UNCHANGED <<objvars, aborted>>

\* Mutant: error_or tests the tag the wrong way round.
ErrorOr_InvertedTest(o, cat) ==
    /\ ~aborted /\ Alive(o, "TE")
    /\ cat \in {"const&", "&&"}
    /\ IF ~has_value(o)
       THEN /\ \E dflt \in Val, conv \in ConvFns :
                   last' = [Snap("error_or", cat, o, 0) EXCEPT
                                !.arg = dflt, !.conv = conv,
                                !.ret = conv[dflt]]
            /\ UNCHANGED <<objvars, aborted>>
       ELSE Asserting(ErrorChecked(o), "error_or", cat, o,
                /\ last' = [Snap("error_or", cat, o, 0) EXCEPT
                                !.ret = _error[o]]
                /\ UNCHANGED <<objvars, aborted>>)

\* error_or(G&& default_value) const& / &&:
\*   if (has_value()) return static_cast<E>(default_value);
\*   return [move](error());
ErrorOr(o, cat) ==
    /\ ~aborted /\ Alive(o, "TE")
    /\ cat \in {"const&", "&&"}
    /\ IF has_value(o)
       THEN /\ \E dflt \in Val, conv \in ConvFns :
                   last' = [Snap("error_or", cat, o, 0) EXCEPT
                                !.arg = dflt, !.conv = conv,
                                !.ret = conv[dflt]]
            /\ UNCHANGED <<objvars, aborted>>
       ELSE Asserting(ErrorChecked(o), "error_or", cat, o,
                /\ \E se \in SourceAfter(cat, _error[o]) :
                       _error' = [_error EXCEPT ![o] = se]
                /\ last' = [Handed("error_or", cat, o, 0) EXCEPT
                                !.ret = _error[o]]
                /\ UNCHANGED <<st, kind, _has_value, _has_error, _value,
                               ctorV, ctorE, aborted>>)

----------------------------------------------------------------------------
\* expected<void, E>.

\* expected(): _dummy(), _has_value(true)
VoidDefaultCtor(d) ==
    /\ ~aborted /\ Fresh(d)
    /\ Emplace(d, "voidE", TRUE, Dead, Dead, _value, _error)
    /\ last' = [NoLast EXCEPT !.op = "void_default_ctor", !.dst = d]
    /\ UNCHANGED aborted

\* expected(unexpect_t, Args&&... args): _error(args...), _has_value(false)
VoidUnexpectCtor(d, a, conv) ==
    /\ ~aborted /\ Fresh(d)
    /\ Emplace(d, "voidE", FALSE, Dead, conv[a], _value, _error)
    /\ last' = [NoLast EXCEPT !.op = "void_unexpect_ctor", !.dst = d,
                              !.arg = a, !.conv = conv]
    /\ UNCHANGED aborted

\* ~expected(): if (not has_value()) destroy_at(&_error);
VoidDestructor(o) ==
    /\ ~aborted /\ Alive(o, "voidE")
    /\ IF ~has_value(o)
       THEN Release("void_dtor", o, _value[o], Dead, 0, 1)
       ELSE Release("void_dtor", o, _value[o], _error[o], 0, 0)
    /\ UNCHANGED aborted

\* error() const& / & / const&& / &&:
\* assert(not has_value()); return [move](_error)
VoidError(o, cat) ==
    /\ ~aborted /\ Alive(o, "voidE")
    /\ Asserting(ErrorChecked(o), "void_error", cat, o,
           /\ last' = [Snap("void_error", cat, o, 0) EXCEPT !.ret = _error[o]]
           /\ UNCHANGED <<objvars, aborted>>)

\* A call that names a constructor or member function expected<void, E>
\* does not declare: the program is ill-formed, nothing is constructed and
\* no callable runs.
IllFormed(opname, cat, s, arg, f) ==
    /\ last' = [NoLast EXCEPT !.op = opname, !.cat = cat, !.src = s,
                              !.preTag = IF s = 0 THEN FALSE ELSE _has_value[s],
                              !.preErr = IF s = 0 THEN Dead ELSE _error[s],
                              !.arg = arg, !.f = f, !.illformed = TRUE]
    /\ UNCHANGED <<objvars, aborted>>

\* expected<void, E>(const unexpected<G>&) / (unexpected<G>&&): the class
\* declares expected() and expected(unexpect_t, Args&&...) only, and
\* unexpected<G> converts neither to unexpect_t nor to expected<void, E>.
VoidUnexpectedCtor(d, cat, g) ==
    /\ ~aborted /\ Fresh(d)
    /\ cat \in {"const&", "&&"}
    /\ IllFormed("void_unexpected_ctor", cat, 0, g, NoFn)

\* expected<void, E>(const expected&) / (expected&&): the class declares
\* neither, and its destructor suppresses the implicit move constructor, so
\* both select the implicit copy constructor.  It copies the tag and the
\* union as they are when E is trivially copyable (trivial) and is deleted
\* otherwise.
VoidCopyCtor(d, s, cat, trivial) ==
    /\ ~aborted /\ Fresh(d) /\ Alive(s, "voidE")
    /\ cat \in {"const&", "&&"}
    /\ IF trivial
       THEN /\ Emplace(d, "voidE", has_value(s), Dead, _error[s],
                       _value, _error)
            /\ last' = Snap(IF cat = "&&" THEN "void_move_ctor"
                            ELSE "void_copy_ctor", cat, s, d)
            /\ UNCHANGED aborted
       ELSE IllFormed(IF cat = "&&" THEN "void_move_ctor"
                      ELSE "void_copy_ctor", cat, s, Dead, NoFn)

\* expected<void, E>(const expected<void, G>&) / (expected<void, G>&&): no
\* converting constructor is declared.
VoidConvCtor(d, s, cat) ==
    /\ ~aborted /\ Fresh(d) /\ Alive(s, "voidE")
    /\ cat \in {"const&", "&&"}
    /\ IllFormed(IF cat = "&&" THEN "void_conv_move_ctor"
                 ELSE "void_conv_copy_ctor", cat, s, Dead, NoFn)

\* expected<void, E>::and_then(f): no such member is declared.
VoidAndThen(s, cat, f) ==
    /\ ~aborted /\ Alive(s, "voidE")
    /\ IllFormed("void_and_then", cat, s, Dead, f)

\* expected<void, E>::transform(f): no such member is declared.
VoidTransform(s, cat, f) ==
    /\ ~aborted /\ Alive(s, "voidE")
    /\ IllFormed("void_transform", cat, s, Dead, f)

----------------------------------------------------------------------------
\* Combinators of expected<T, E>.  d is the object the call returns; the
\* reads **this and error() carry their assertions.

\* Mutant: on the error path and_then returns U(unexpect), dropping error().
AndThen_DropsError(d, s, cat, f) ==
    /\ ~aborted /\ Fresh(d) /\ Alive(s, "TE")
    /\ IF has_value(s)
       THEN LET r == f.fn[_value[s]] IN
            /\ \E sv \in SourceAfter(cat, _value[s]) :
                   Emplace(d, r.kind, r.tag, r.val, r.err,
                           [_value EXCEPT ![s] = sv], _error)
            /\ last' = [Snap("and_then", cat, s, d) EXCEPT
                            !.f = f, !.fcalls = 1, !.farg = _value[s]]
            /\ UNCHANGED aborted
       ELSE /\ Emplace(d, f.rk, FALSE, Dead, DefaultT, _value, _error)
            /\ last' = [Snap("and_then", cat, s, d) EXCEPT !.f = f]
            /\ UNCHANGED aborted

\* and_then(F&& f) & / const& / && / const&&:
\*   if (has_value()) return std::invoke(f, [move](**this));
\*   return U(unexpect, [move](error()));
AndThen(d, s, cat, f) ==
    /\ ~aborted /\ Fresh(d) /\ Alive(s, "TE")
    /\ IF has_value(s)
       THEN Asserting(ValueChecked(s), "and_then", cat, s,
                LET r == f.fn[_value[s]] IN
                /\ \E sv \in SourceAfter(cat, _value[s]) :
                       Emplace(d, r.kind, r.tag, r.val, r.err,
                               [_value EXCEPT ![s] = sv], _error)
                /\ last' = [Handed("and_then", cat, s, d) EXCEPT
                                !.f = f, !.fcalls = 1, !.farg = _value[s],
                                !.chain = ChainStep(s, d, 1)]
                /\ UNCHANGED aborted)
       ELSE Asserting(ErrorChecked(s), "and_then", cat, s,
                /\ \E se \in SourceAfter(cat, _error[s]) :
                       Emplace(d, f.rk, FALSE, Dead, _error[s],
                               _value, [_error EXCEPT ![s] = se])
                /\ last' = [Handed("and_then", cat, s, d) EXCEPT
                                !.f = f, !.chain = ChainStep(s, d, 0)]
                /\ UNCHANGED aborted)

\* Mutant: on the value path or_else returns G(in_place), dropping **this.
OrElse_DropsValue(d, s, cat, f) ==
    /\ ~aborted /\ Fresh(d) /\ Alive(s, "TE")
    /\ IF has_value(s)
       THEN /\ Emplace(d, f.rk, TRUE, DefaultT, Dead, _value, _error)
            /\ last' = [Snap("or_else", cat, s, d) EXCEPT !.f = f]
            /\ UNCHANGED aborted
       ELSE LET r == f.fn[_error[s]] IN
            /\ \E se \in SourceAfter(cat, _error[s]) :
                   Emplace(d, r.kind, r.tag, r.val, r.err,
                           _value, [_error EXCEPT ![s] = se])
            /\ last' = [Snap("or_else", cat, s, d) EXCEPT
                            !.f = f, !.fcalls = 1, !.farg = _error[s]]
            /\ UNCHANGED aborted

\* or_else(F&& f) & / const& / && / const&&:
\*   if (has_value()) return G(in_place, [move](**this));
\*   return std::invoke(f, [move](error()));
OrElse(d, s, cat, f) ==
    /\ ~aborted /\ Fresh(d) /\ Alive(s, "TE")
    /\ IF has_value(s)
       THEN Asserting(ValueChecked(s), "or_else", cat, s,
                /\ \E sv \in SourceAfter(cat, _value[s]) :
                       Emplace(d, f.rk, TRUE, _value[s], Dead,
                               [_value EXCEPT ![s] = sv], _error)
                /\ last' = [Handed("or_else", cat, s, d) EXCEPT !.f = f]
                /\ UNCHANGED aborted)
       ELSE Asserting(ErrorChecked(s), "or_else", cat, s,
                LET r == f.fn[_error[s]] IN
                /\ \E se \in SourceAfter(cat, _error[s]) :
                       Emplace(d, r.kind, r.tag, r.val, r.err,
                               _value, [_error EXCEPT ![s] = se])
                /\ last' = [Handed("or_else", cat, s, d) EXCEPT
                                !.f = f, !.fcalls = 1, !.farg = _error[s]]
                /\ UNCHANGED aborted)

\* Mutant: after a void-returning f the result is constructed in the error
\* state instead of being default-constructed.
Transform_VoidResultFromError(d, s, cat, f) ==
    /\ ~aborted /\ Fresh(d) /\ Alive(s, "TE")
    /\ IF has_value(s) /\ f.rk = "voidE"
       THEN /\ Emplace(d, "voidE", FALSE, Dead, DefaultT, _value, _error)
            /\ last' = [Handed("transform", cat, s, d) EXCEPT
                            !.f = f, !.fcalls = 1, !.farg = _value[s]]
            /\ UNCHANGED aborted
       ELSE /\ Emplace(d, f.rk, has_value(s),
                       IF has_value(s) THEN f.fn[_value[s]] ELSE Dead,
                       _error[s], _value, _error)
            /\ last' = [Handed("transform", cat, s, d) EXCEPT
                            !.f = f, !.fcalls = IF has_value(s) THEN 1 ELSE 0,
                            !.farg = IF has_value(s) THEN _value[s] ELSE Dead]
            /\ UNCHANGED aborted

\* Mutant: on the error path transform invokes f on a value-initialised T
\* and returns expected<U, E>(unexpect), dropping error().
Transform_InvokesOnError(d, s, cat, f) ==
    /\ ~aborted /\ Fresh(d) /\ Alive(s, "TE")
    /\ IF has_value(s)
       THEN LET r == f.fn[_value[s]] IN
            /\ \E sv \in SourceAfter(cat, _value[s]) :
                   IF f.rk = "voidE"
                   THEN Emplace(d, "voidE", TRUE, Dead, Dead,
                                [_value EXCEPT ![s] = sv], _error)
                   ELSE Emplace(d, "TE", TRUE, r, Dead,
                                [_value EXCEPT ![s] = sv], _error)
            /\ last' = [Handed("transform", cat, s, d) EXCEPT
                            !.f = f, !.fcalls = 1, !.farg = _value[s],
                            !.chain = ChainStep(s, d, 1)]
            /\ UNCHANGED aborted
       ELSE /\ Emplace(d, f.rk, FALSE, Dead, DefaultT, _value, _error)
            /\ last' = [Handed("transform", cat, s, d) EXCEPT
                            !.f = f, !.fcalls = 1, !.farg = DefaultT,
                            !.chain = ChainStep(s, d, 1)]
            /\ UNCHANGED aborted

\* Mutant: transform wraps **this without applying f to it.
Transform_SkipsF(d, s, cat, f) ==
    /\ ~aborted /\ Fresh(d) /\ Alive(s, "TE")
    /\ IF has_value(s)
       THEN /\ \E sv \in SourceAfter(cat, _value[s]) :
                   IF f.rk = "voidE"
                   THEN Emplace(d, "voidE", TRUE, Dead, Dead,
                                [_value EXCEPT ![s] = sv], _error)
                   ELSE Emplace(d, "TE", TRUE, _value[s], Dead,
                                [_value EXCEPT ![s] = sv], _error)
            /\ last' = [Snap("transform", cat, s, d) EXCEPT !.f = f]
            /\ UNCHANGED aborted
       ELSE /\ \E se \in SourceAfter(cat, _error[s]) :
                   Emplace(d, f.rk, FALSE, Dead, _error[s],
                           _value, [_error EXCEPT ![s] = se])
            /\ last' = [Snap("transform", cat, s, d) EXCEPT !.f = f]
            /\ UNCHANGED aborted

\* transform(F&& f) & / const& / && / const&&:
\*   if (has_value()) {
\*       if constexpr (is_void_v<U>) { std::invoke(f, [move](**this));
\*                                     return expected<U, E>(); }
\*       else return expected<U, E>(in_place, std::invoke(f, [move](**this)));
\*   }
\*   return expected<U, E>(unexpect, [move](error()));
Transform(d, s, cat, f) ==
    /\ ~aborted /\ Fresh(d) /\ Alive(s, "TE")
    /\ IF has_value(s)
       THEN Asserting(ValueChecked(s), "transform", cat, s,
                LET r == f.fn[_value[s]] IN
                /\ \E sv \in SourceAfter(cat, _value[s]) :
                       IF f.rk = "voidE"
                       THEN Emplace(d, "voidE", TRUE, Dead, Dead,
                                    [_value EXCEPT ![s] = sv], _error)
                       ELSE Emplace(d, "TE", TRUE, r, Dead,
                                    [_value EXCEPT ![s] = sv], _error)
                /\ last' = [Handed("transform", cat, s, d) EXCEPT
                                !.f = f, !.fcalls = 1, !.farg = _value[s],
                                !.chain = ChainStep(s, d, 1)]
                /\ UNCHANGED aborted)
       ELSE Asserting(ErrorChecked(s), "transform", cat, s,
                /\ \E se \in SourceAfter(cat, _error[s]) :
                       Emplace(d, f.rk, FALSE, Dead, _error[s],
                               _value, [_error EXCEPT ![s] = se])
                /\ last' = [Handed("transform", cat, s, d) EXCEPT
                                !.f = f, !.chain = ChainStep(s, d, 0)]
                /\ UNCHANGED aborted)

\* Mutant: transform_error applies f on the value path as well, to **this.
TransformError_AppliesFToValue(d, s, cat, f) ==
    /\ ~aborted /\ Fresh(d) /\ Alive(s, "TE")
    /\ IF has_value(s)
       THEN /\ \E sv \in SourceAfter(cat, _value[s]) :
                   Emplace(d, "TE", TRUE, f.fn[_value[s]], Dead,
                           [_value EXCEPT ![s] = sv], _error)
            /\ last' = [Snap("transform_error", cat, s, d) EXCEPT
                            !.f = f, !.fcalls = 1, !.farg = _value[s]]
            /\ UNCHANGED aborted
       ELSE LET r == f.fn[_error[s]] IN
            /\ \E se \in SourceAfter(cat, _error[s]) :
                   Emplace(d, "TE", FALSE, Dead, r,
                           _value, [_error EXCEPT ![s] = se])
            /\ last' = [Snap("transform_error", cat, s, d) EXCEPT
                            !.f = f, !.fcalls = 1, !.farg = _error[s]]
            /\ UNCHANGED aborted

\* transform_error(F&& f) & / const& / && / const&&:
\*   if (has_value()) return expected<T, G>(in_place, [move](**this));
\*   return expected<T, G>(unexpect, std::invoke(f, [move](error())));
TransformError(d, s, cat, f) ==
    /\ ~aborted /\ Fresh(d) /\ Alive(s, "TE")
    /\ IF has_value(s)
       THEN Asserting(ValueChecked(s), "transform_error", cat, s,
                /\ \E sv \in SourceAfter(cat, _value[s]) :
                       Emplace(d, "TE", TRUE, _value[s], Dead,
                               [_value EXCEPT ![s] = sv], _error)
                /\ last' = [Handed("transform_error", cat, s, d) EXCEPT !.f = f]
                /\ UNCHANGED aborted)
       ELSE Asserting(ErrorChecked(s), "transform_error", cat, s,
                LET r == f.fn[_error[s]] IN
                /\ \E se \in SourceAfter(cat, _error[s]) :
                       Emplace(d, "TE", FALSE, Dead, r,
                               _value, [_error EXCEPT ![s] = se])
                /\ last' = [Handed("transform_error", cat, s, d) EXCEPT
                                !.f = f, !.fcalls = 1, !.farg = _error[s]]
                /\ UNCHANGED aborted)

----------------------------------------------------------------------------
\* extl::status<E> and extl::always_success_status
\* (include/result/status.hpp).  A status<E> carries its tag `_has_error`
\* and the union member `_error`; an always_success_status has no members.

\* `last` for an operation on the status / always_success_status s: preTag
\* is s.ok() before the call.
StatusSnap(opname, cat, s, d) ==
    [NoLast EXCEPT !.op = opname, !.cat = cat, !.src = s, !.dst = d,
                   !.preTag = ~_has_error[s], !.preErr = _error[s]]

\* The constructors' effect on the new status d: the mem-initializer of
\* the tag and the error constructed (e: Dead when none is).  errs are the
\* errors of the other objects.
StatusEmplace(d, he, e, errs) ==
    /\ st' = [st EXCEPT ![d] = "alive"]
    /\ kind' = [kind EXCEPT ![d] = "status"]
    /\ _has_error' = [_has_error EXCEPT ![d] = he]
    /\ _error' = [errs EXCEPT ![d] = e]
    /\ ctorE' = [ctorE EXCEPT ![d] = IF e # Dead THEN 1 ELSE 0]
    /\ UNCHANGED <<_has_value, _value, ctorV>>

\* Mutant: ok() returns the tag itself.
ok_ReturnsHasError(o) == _has_error[o]

\* ok(): return !_has_error
ok(o) == ~_has_error[o]

\* explicit operator bool(): return ok()
operator_bool(o) == ok(o)

\* status(): _dummy{}, _has_error{ false }
StatusDefaultCtor(d) ==
    /\ ~aborted /\ Fresh(d)
    /\ StatusEmplace(d, FALSE, Dead, _error)
    /\ last' = [NoLast EXCEPT !.op = "status_default_ctor", !.dst = d]
    /\ UNCHANGED aborted

\* status(nullerr_t): _dummy{}, _has_error{ false }
StatusNullerrCtor(d) ==
    /\ ~aborted /\ Fresh(d)
    /\ StatusEmplace(d, FALSE, Dead, _error)
    /\ last' = [NoLast EXCEPT !.op = "status_nullerr_ctor", !.dst = d]
    /\ UNCHANGED aborted

\* explicit status(in_place_t, Args&&... args): declared; constructs a
\* status that contains an error direct-initialized from args.
StatusInPlaceCtor(d, a, conv) ==
    /\ ~aborted /\ Fresh(d)
    /\ StatusEmplace(d, TRUE, conv[a], _error)
    /\ last' = [NoLast EXCEPT !.op = "status_in_place_ctor", !.dst = d,
                              !.arg = a, !.conv = conv]
    /\ UNCHANGED aborted

\* template <U = E> status(U&& other): declared; constructs a status that
\* contains an error direct-initialized from std::forward<U>(other).
StatusValueCtor(d, u, conv) ==
    /\ ~aborted /\ Fresh(d)
    /\ StatusEmplace(d, TRUE, conv[u], _error)
    /\ last' = [NoLast EXCEPT !.op = "status_value_ctor", !.dst = d,
                              !.arg = u, !.conv = conv]
    /\ UNCHANGED aborted

\* The copy, move and converting constructors, declared: if other contains
\* an error, the new status contains an error direct-initialized from
\* other's (from std::move of it in the move constructors, which leaves
\* other containing a moved-from error); otherwise it contains none.
StatusFrom(opname, d, s, cat, conv) ==
    /\ ~aborted /\ Fresh(d) /\ Alive(s, "status")
    /\ IF _has_error[s]
       THEN \E se \in SourceAfter(cat, _error[s]) :
                StatusEmplace(d, TRUE, conv[_error[s]],
                              [_error EXCEPT ![s] = se])
       ELSE StatusEmplace(d, FALSE, Dead, _error)
    /\ last' = [StatusSnap(opname, cat, s, d) EXCEPT !.convE = conv]
    /\ UNCHANGED aborted

\* status(const status& other)
StatusCopyCtor(d, s) == StatusFrom("status_copy_ctor", d, s, "const&", IdFn)

\* Mutant: the move constructor leaves the source without an error.
StatusMoveCtor_ResetsSource(d, s) ==
    /\ ~aborted /\ Fresh(d) /\ Alive(s, "status")
    /\ st' = [st EXCEPT ![d] = "alive"]
    /\ kind' = [kind EXCEPT ![d] = "status"]
    /\ _has_error' = [_has_error EXCEPT ![d] = _has_error[s], ![s] = FALSE]
    /\ _error' = [_error EXCEPT ![d] = _error[s], ![s] = Dead]
    /\ ctorE' = [ctorE EXCEPT ![d] = IF _error[s] # Dead THEN 1 ELSE 0]
    /\ last' = StatusSnap("status_move_ctor", "&&", s, d)
    /\ UNCHANGED <<_has_value, _value, ctorV, aborted>>

\* status(status&& other)
StatusMoveCtor(d, s) == StatusFrom("status_move_ctor", d, s, "&&", IdFn)

\* template <U> status(const status<U>& other)
StatusConvCopyCtor(d, s, conv) ==
    StatusFrom("status_conv_copy_ctor", d, s, "const&", conv)

\* template <U> status(status<U>&& other)
StatusConvMoveCtor(d, s, conv) ==
    StatusFrom("status_conv_move_ctor", d, s, "&&", conv)

\* The end of the lifetime of a status or an always_success_status.
StatusRelease(opname, o, e, de) ==
    /\ st' = [st EXCEPT ![o] = "unborn"]
    /\ kind' = [kind EXCEPT ![o] = "none"]
    /\ _has_error' = [_has_error EXCEPT ![o] = FALSE]
    /\ _error' = [_error EXCEPT ![o] = Dead]
    /\ ctorE' = [ctorE EXCEPT ![o] = 0]
    /\ last' = [StatusSnap(opname, "none", o, 0) EXCEPT
                    !.life = [ctorV |-> 0, ctorE |-> ctorE[o],
                              dtorV |-> 0, dtorE |-> de,
                              liveV |-> FALSE, liveE |-> e # Dead]]
    /\ UNCHANGED <<_has_value, _value, ctorV>>

\* ~status(): if (_has_error) destroy_at(&_error);
StatusDestructor(o) ==
    /\ ~aborted /\ Alive(o, "status")
    /\ IF _has_error[o]
       THEN StatusRelease("status_dtor", o, Dead, 1)
       ELSE StatusRelease("status_dtor", o, _error[o], 0)
    /\ UNCHANGED aborted

\* status::ok()
StatusOk(o) ==
    /\ ~aborted /\ Alive(o, "status")
    /\ last' = [StatusSnap("status_ok", "const&", o, 0) EXCEPT
                    !.retTag = ok(o)]
    /\ UNCHANGED <<objvars, aborted>>

\* status::operator bool()
StatusBool(o) ==
    /\ ~aborted /\ Alive(o, "status")
    /\ last' = [StatusSnap("status_bool", "const&", o, 0) EXCEPT
                    !.retTag = operator_bool(o)]
    /\ UNCHANGED <<objvars, aborted>>

\* status::error() / error() const: assert(!ok()); return _error
StatusError(o, cat) ==
    /\ ~aborted /\ Alive(o, "status")
    /\ cat \in {"&", "const&"}
    /\ IF ~ok(o)
       THEN /\ last' = [StatusSnap("status_error", cat, o, 0) EXCEPT
                            !.ret = _error[o]]
            /\ UNCHANGED <<objvars, aborted>>
       ELSE /\ aborted' = TRUE
            /\ last' = [StatusSnap("status_error", cat, o, 0) EXCEPT
                            !.asserted = TRUE]
            /\ UNCHANGED objvars

\* The names namespace extl declares for the type that is always ok, and
\* the names programs of the repository use for it (lifecycle.hpp uses the
\* first, test/result/status.cpp the second).
DeclaredNames == {"always_success_status"}
UsedNames == {"always_success_status", "always_ok_status"}

\* extl::<name> s;  always_success_status() = default: nothing to
\* initialize.  A name that is not declared does not compile.
AlwaysCtor(d, name) ==
    /\ ~aborted /\ Fresh(d)
    /\ IF name \in DeclaredNames
       THEN /\ st' = [st EXCEPT ![d] = "alive"]
            /\ kind' = [kind EXCEPT ![d] = "always"]
            /\ last' = [NoLast EXCEPT !.op = "always_ctor", !.dst = d,
                                      !.name = name]
            /\ UNCHANGED <<_has_value, _has_error, _value, _error,
                           ctorV, ctorE, aborted>>
       ELSE /\ last' = [NoLast EXCEPT !.op = "always_ctor", !.name = name,
                                      !.illformed = TRUE]
            /\ UNCHANGED <<objvars, aborted>>

\* always_success_status(const always_success_status&) = default and
\* always_success_status(always_success_status&&) = default
AlwaysCopyMoveCtor(d, s, cat) ==
    /\ ~aborted /\ Fresh(d) /\ Alive(s, "always")
    /\ cat \in {"const&", "&&"}
    /\ st' = [st EXCEPT ![d] = "alive"]
    /\ kind' = [kind EXCEPT ![d] = "always"]
    /\ last' = StatusSnap(IF cat = "&&" THEN "always_move_ctor"
                          ELSE "always_copy_ctor", cat, s, d)
    /\ UNCHANGED <<_has_value, _has_error, _value, _error,
                   ctorV, ctorE, aborted>>

\* operator=(const always_success_status&) = default and
\* operator=(always_success_status&&) = default
AlwaysAssign(o, s, cat) ==
    /\ ~aborted /\ Alive(o, "always") /\ Alive(s, "always")
    /\ cat \in {"const&", "&&"}
    /\ last' = StatusSnap("always_assign", cat, s, o)
    /\ UNCHANGED <<objvars, aborted>>

\* The implicit destructor of always_success_status.
AlwaysDestructor(o) ==
    /\ ~aborted /\ Alive(o, "always")
    /\ StatusRelease("always_dtor", o, _error[o], 0)
    /\ UNCHANGED aborted

\* always_success_status::ok(): return true
AlwaysOk(o) ==
    /\ ~aborted /\ Alive(o, "always")
    /\ last' = [StatusSnap("always_ok", "const&", o, 0) EXCEPT
                    !.retTag = TRUE]
    /\ UNCHANGED <<objvars, aborted>>

\* always_success_status::operator bool(): return ok()
AlwaysBool(o) ==
    /\ ~aborted /\ Alive(o, "always")
    /\ last' = [StatusSnap("always_bool", "const&", o, 0) EXCEPT
                    !.retTag = TRUE]
    /\ UNCHANGED <<objvars, aborted>>

\* always_success_status::error(): unreachable(), i.e. assert(false)
AlwaysError(o) ==
    /\ ~aborted /\ Alive(o, "always")
    /\ aborted' = TRUE
    /\ last' = [StatusSnap("always_error", "const&", o, 0) EXCEPT
                    !.asserted = TRUE]
    /\ UNCHANGED objvars

----------------------------------------------------------------------------
\* extl::storage<T>, construct_at and copy_at (include/memory/lifecycle.hpp).
\* A storage carries the union member `_value` (Dead while no T is
\* constructed in it); ctorV counts the T constructors run on it.

\* The most T constructions followed on one storage.
MaxCtor == 2

\* storage(): _dummy{}
StorageCtor(d) ==
    /\ ~aborted /\ Fresh(d)
    /\ Emplace(d, "storage", FALSE, Dead, Dead, _value, _error)
    /\ last' = [NoLast EXCEPT !.op = "storage_ctor", !.dst = d]
    /\ UNCHANGED aborted

\* new(storage) T(...): T's constructor runs on the slot, whatever it holds.
PlacementNew(opname, o, a, conv) ==
    /\ _value' = [_value EXCEPT ![o] = conv[a]]
    /\ ctorV' = [ctorV EXCEPT ![o] = ctorV[o] + 1]
    /\ last' = [Snap(opname, "&", o, 0) EXCEPT
                    !.arg = a, !.conv = conv, !.retTag = TRUE,
                    !.life = [NoLife EXCEPT !.ctorV = 1]]
    /\ UNCHANGED <<st, kind, _has_value, _has_error, _error, ctorE, aborted>>

\* construct_at(storage, args...) / copy_at(storage, value) for a T that
\* declares its own in-place create / copy: return T::create(storage,
\* args...), which constructs the T and returns an ok status, or constructs
\* nothing and returns a status with an error.
Delegated(opname, o, a, conv) ==
    \/ PlacementNew(opname, o, a, conv)
    \/ /\ last' = [Snap(opname, "&", o, 0) EXCEPT
                       !.arg = a, !.conv = conv, !.retTag = FALSE]
       /\ UNCHANGED <<objvars, aborted>>

\* construct_at(storage<T>&, Args&&...): T::create(storage, args...) when T
\* has one (inplace), otherwise new(storage) T(args...) and
\* always_success_status{}.
ConstructAt(o, a, conv, inplace) ==
    /\ ~aborted /\ Alive(o, "storage") /\ ctorV[o] < MaxCtor
    /\ IF inplace THEN Delegated("construct_at", o, a, conv)
       ELSE PlacementNew("construct_at", o, a, conv)

\* copy_at(storage<T>&, const T& value): T::copy(storage, value) when T has
\* one (inplace), otherwise new(storage) T(value) and
\* always_success_status{}.
CopyAt(o, v, inplace) ==
    /\ ~aborted /\ Alive(o, "storage") /\ ctorV[o] < MaxCtor
    /\ IF inplace THEN Delegated("copy_at", o, v, IdFn)
       ELSE PlacementNew("copy_at", o, v, IdFn)

\* The end of a storage's lifetime after its destructor made dv calls of
\* T's destructor; crashed: the call on a slot without a T trapped.
StorageRelease(o, dv, crashed) ==
    /\ st' = [st EXCEPT ![o] = "unborn"]
    /\ kind' = [kind EXCEPT ![o] = "none"]
    /\ _value' = [_value EXCEPT ![o] = Dead]
    /\ ctorV' = [ctorV EXCEPT ![o] = 0]
    /\ aborted' = crashed
    /\ last' = [Snap("storage_dtor", "none", o, 0) EXCEPT
                    !.life = [NoLife EXCEPT !.ctorV = ctorV[o],
                                            !.dtorV = dv]]
    /\ UNCHANGED <<_has_value, _has_error, _error, ctorE>>

\* Mutant: the destructor leaves the occupant alone.
StorageDestructor_NoDestroy(o) ==
    /\ ~aborted /\ Alive(o, "storage")
    /\ StorageRelease(o, 0, FALSE)

\* ~storage(): destroy_at(&_value), i.e. _value.~T(), whether or not a T
\* was constructed in the slot.  On a slot without a T the call is
\* undefined: T's destructor runs on indeterminate bytes and returns, or
\* traps.
StorageDestructor(o) ==
    /\ ~aborted /\ Alive(o, "storage")
    /\ IF _value[o] # Dead
       THEN StorageRelease(o, 1, FALSE)
       ELSE \E crashed \in BOOLEAN : StorageRelease(o, 1, crashed)

----------------------------------------------------------------------------
\* The legacy extl::expected<T, E, H> (include/ExTL/expected.h).  An object
\* carries `_has_value`, `_value` and `_error`; its kind names the handler
\* type H it derives from.  ctorV / ctorE count the T / E constructors run
\* on its union.

\* default_expected_no_value_handler<T, E>, whose operator() calls
\* breakpoint(), and a handler whose operator() returns
\* (custom_handler of test/Test.cpp).
Handlers == {"default_expected_no_value_handler", "custom_handler"}

LegacyKind(H) == IF H = "custom_handler" THEN "legacy_custom" ELSE "legacy"
LegacyKinds == {LegacyKind(H) : H \in Handlers}
HandlerOf(o) == IF kind[o] = "legacy_custom" THEN "custom_handler"
                ELSE "default_expected_no_value_handler"

\* `last` for an operation on the legacy expected s.
LegacySnap(opname, cat, s, d) ==
    [Snap(opname, cat, s, d) EXCEPT !.name = HandlerOf(s)]

\* explicit expected(T&& value): _has_value(true), new (&_value) T(value)
LegacyValueCtor(d, v, H) ==
    /\ ~aborted /\ Fresh(d)
    /\ Emplace(d, LegacyKind(H), TRUE, v, Dead, _value, _error)
    /\ last' = [NoLast EXCEPT !.op = "legacy_value_ctor", !.dst = d,
                              !.arg = v, !.name = H]
    /\ UNCHANGED aborted

\* explicit expected(unexpected<E>&& error): _has_value(false),
\* new (&_error) E(std::move(error.error()))
LegacyUnexpectedCtor(d, e, H) ==
    /\ ~aborted /\ Fresh(d)
    /\ Emplace(d, LegacyKind(H), FALSE, Dead, e, _value, _error)
    /\ last' = [NoLast EXCEPT !.op = "legacy_unexpected_ctor", !.dst = d,
                              !.arg = e, !.name = H]
    /\ UNCHANGED aborted

\* expected(expected&& other): _has_value(other.has_value());
\* if (_has_value) new (&_value) T(std::move(other._value));
\* else new (&_error) E(std::move(other._error));
LegacyMoveCtor(d, s) ==
    /\ ~aborted /\ Fresh(d) /\ st[s] = "alive" /\ kind[s] \in LegacyKinds
    /\ IF _has_value[s]
       THEN \E sv \in MovedFrom(_value[s]) :
                Emplace(d, kind[s], TRUE, _value[s], Dead,
                        [_value EXCEPT ![s] = sv], _error)
       ELSE \E se \in MovedFrom(_error[s]) :
                Emplace(d, kind[s], FALSE, Dead, _error[s],
                        _value, [_error EXCEPT ![s] = se])
    /\ last' = LegacySnap("legacy_move_ctor", "&&", s, d)
    /\ UNCHANGED aborted

\* operator=(expected&& other): if (this != &other) {
\*   _has_value = other._has_value;
\*   if (_has_value) new (&_value) T(std::move(other._value));
\*   else new (&_error) E(std::move(other._error)); }
\* The payload held before is not destroyed: the new one is constructed in
\* the union's storage over it.  last.retTag is the tag before the call.
LegacyMoveAssign(o, s) ==
    /\ ~aborted /\ st[o] = "alive" /\ st[s] = "alive"
    /\ kind[o] \in LegacyKinds /\ kind[s] = kind[o]
    /\ ctorV[o] + ctorE[o] < MaxCtor
    /\ IF o = s
       THEN UNCHANGED objvars
       ELSE /\ _has_value' = [_has_value EXCEPT ![o] = _has_value[s]]
            /\ IF _has_value[s]
               THEN /\ \E sv \in MovedFrom(_value[s]) :
                         _value' = [_value EXCEPT ![o] = _value[s],
                                                  ![s] = sv]
                    /\ _error' = [_error EXCEPT ![o] = Dead]
                    /\ ctorV' = [ctorV EXCEPT ![o] = ctorV[o] + 1]
                    /\ UNCHANGED ctorE
               ELSE /\ \E se \in MovedFrom(_error[s]) :
                         _error' = [_error EXCEPT ![o] = _error[s],
                                                  ![s] = se]
                    /\ _value' = [_value EXCEPT ![o] = Dead]
                    /\ ctorE' = [ctorE EXCEPT ![o] = ctorE[o] + 1]
                    /\ UNCHANGED ctorV
            /\ UNCHANGED <<st, kind, _has_error>>
    /\ last' = [LegacySnap("legacy_move_assign", "&&", s, o) EXCEPT
                    !.retTag = _has_value[o]]
    /\ UNCHANGED aborted

\* ~expected(): if (has_value()) _value.~T(); else _error.~E();
LegacyDestructor(o) ==
    /\ ~aborted /\ st[o] = "alive" /\ kind[o] \in LegacyKinds
    /\ IF _has_value[o]
       THEN Release("legacy_dtor", o, Dead, _error[o], 1, 0)
       ELSE Release("legacy_dtor", o, _value[o], Dead, 0, 1)
    /\ UNCHANGED aborted

\* has_value() / explicit operator bool()
LegacyHasValue(o) ==
    /\ ~aborted /\ st[o] = "alive" /\ kind[o] \in LegacyKinds
    /\ last' = [LegacySnap("legacy_has_value", "const&", o, 0) EXCEPT
                    !.retTag = _has_value[o]]
    /\ UNCHANGED <<objvars, aborted>>

\* Mutant: the handler is invoked when the test is false.
LegacyAccess_InvertedTest(opname, o, cat, misuse, member) ==
    IF cat = "const&"
    THEN /\ last' = [LegacySnap(opname, cat, o, 0) EXCEPT !.illformed = TRUE]
         /\ UNCHANGED <<objvars, aborted>>
    ELSE IF ~misuse
         THEN /\ aborted' = (HandlerOf(o) = "default_expected_no_value_handler")
              /\ last' = [LegacySnap(opname, cat, o, 0) EXCEPT
                              !.fcalls = 1, !.farg = _error[o],
                              !.ret = IF HandlerOf(o) = "custom_handler"
                                      THEN member ELSE Dead]
              /\ UNCHANGED objvars
         ELSE /\ last' = [LegacySnap(opname, cat, o, 0) EXCEPT !.ret = member]
              /\ UNCHANGED <<objvars, aborted>>

\* The body shared by value() and error():
\*   if (misuse) static_cast<H*>(this)->operator()(_error);
\*   return member;
\* The handler receives the union member _error whichever member is live.
\* default_expected_no_value_handler calls breakpoint(), which traps; a
\* handler that returns lets the accessor return its member.  In the const
\* overloads `this` points to a const object, which static_cast<H*> cannot
\* convert: a call of them does not compile.
LegacyAccess(opname, o, cat, misuse, member) ==
    IF cat = "const&"
    THEN /\ last' = [LegacySnap(opname, cat, o, 0) EXCEPT !.illformed = TRUE]
         /\ UNCHANGED <<objvars, aborted>>
    ELSE IF misuse
         THEN /\ aborted' = (HandlerOf(o) = "default_expected_no_value_handler")
              /\ last' = [LegacySnap(opname, cat, o, 0) EXCEPT
                              !.fcalls = 1, !.farg = _error[o],
                              !.ret = IF HandlerOf(o) = "custom_handler"
                                      THEN member ELSE Dead]
              /\ UNCHANGED objvars
         ELSE /\ last' = [LegacySnap(opname, cat, o, 0) EXCEPT !.ret = member]
              /\ UNCHANGED <<objvars, aborted>>

\* value() / value() const: misuse is !has_value(), the member is _value
LegacyValue(o, cat) ==
    /\ ~aborted /\ st[o] = "alive" /\ kind[o] \in LegacyKinds
    /\ cat \in {"&", "const&"}
    /\ LegacyAccess("legacy_value", o, cat, ~_has_value[o], _value[o])

\* error() / error() const: misuse is has_value(), the member is _error
LegacyError(o, cat) ==
    /\ ~aborted /\ st[o] = "alive" /\ kind[o] \in LegacyKinds
    /\ cat \in {"&", "const&"}
    /\ LegacyAccess("legacy_error", o, cat, _has_value[o], _error[o])

----------------------------------------------------------------------------
\* The compile-time side: the strictness policy (utility/type_traits.hpp)
\* and the requires-clauses and noexcept-specifiers of the constructors of
\* expected<T, E> from a whole expected<U, G> (expected/expected.hpp).

\* Mutant: the two branches of the conditional are exchanged.
strict_v_Exchanged(EXTL_STRICT_CONSTRAINTS, c) ==
    IF EXTL_STRICT_CONSTRAINTS THEN c.plain ELSE c.nothrow

\* strict_X_v = EXTL_STRICT_CONSTRAINTS ? std::is_nothrow_X_v : std::is_X_v
strict_v(EXTL_STRICT_CONSTRAINTS, c) ==
    IF EXTL_STRICT_CONSTRAINTS THEN c.nothrow ELSE c.plain

\* The capability queries of type_traits.hpp.
StrictQueries ==
    {"strict_default_constructible_v", "strict_copy_constructible_v",
     "strict_move_constructible_v", "strict_constructible_v",
     "strict_destructible_v", "strict_copy_assignable_v",
     "strict_move_assignable_v", "strict_assignable_v",
     "strict_convertible_v", "strict_swappable_v", "strict_invocable_v"}

\* Record of a compile-time query: the query op (none while the inputs are
\* only drawn), the overload cat it is about, its inputs query, the value
\* retTag of the variable template or requires-clause and the value
\* noexcept of the noexcept-specifier.
NoTraitLast == [op |-> "none", cat |-> "none", query |-> NoQuery,
                retTag |-> FALSE, noexcept |-> FALSE]

\* The inputs of a strict_*_v variable template: the flag and what the
\* two traits report for the type arguments.
StrictInputs ==
    {[NoQuery EXCEPT !.EXTL_STRICT_CONSTRAINTS = flag, !.cap = c] :
        flag \in BOOLEAN, c \in Caps}

\* The evaluation of the strict_*_v variable template name on the inputs
\* last.query.
StrictQuery(name) ==
    /\ last.op = "none" /\ last.query \in StrictInputs
    /\ last' = [last EXCEPT
                    !.op = name,
                    !.retTag = strict_v(last.query.EXTL_STRICT_CONSTRAINTS,
                                        last.query.cap)]
    /\ UNCHANGED <<objvars, aborted>>

\* The inputs of the queries about a construction from expected<U, G>.  A
\* bool is constructible, explicitly, from every form of an expected
\* (explicit operator bool); a type convertible from a form is
\* constructible from it.
FormSets == {{}, WholeForms} \cup {{w} : w \in WholeForms}
Queries ==
    {q \in [EXTL_STRICT_CONSTRAINTS : BOOLEAN, cap : {NoCap},
            T_is_bool : BOOLEAN, T_from_U : Caps, E_from_G : Caps,
            T_from_src_nothrow : BOOLEAN,
            T_constructible : FormSets, T_convertible : FormSets,
            unexpected_constructible : FormSets] :
        /\ q.T_convertible \in {{}, q.T_constructible}
        /\ q.T_is_bool =>
               q.T_constructible = WholeForms /\ q.T_convertible = {}}

\* requires-clause of expected(const expected<U, G>&); T_from_U and
\* E_from_G are T from const U& and E from const G&.
ConvCopyCtorEnabled(q) ==
    /\ strict_v(q.EXTL_STRICT_CONSTRAINTS, q.T_from_U)
    /\ strict_v(q.EXTL_STRICT_CONSTRAINTS, q.E_from_G)
    /\ \/ q.T_is_bool
       \/ /\ \A w \in WholeForms : w \notin q.T_constructible
          /\ \A w \in WholeForms : w \notin q.T_convertible
    /\ \A w \in WholeForms : w \notin q.unexpected_constructible

\* Mutant: the move form does not look at unexpected<E>.
ConvMoveCtorEnabled_IgnoresUnexpected(q) ==
    /\ strict_v(q.EXTL_STRICT_CONSTRAINTS, q.T_from_U)
    /\ strict_v(q.EXTL_STRICT_CONSTRAINTS, q.E_from_G)
    /\ \/ q.T_is_bool
       \/ /\ \A w \in WholeForms : w \notin q.T_constructible
          /\ \A w \in WholeForms : w \notin q.T_convertible

\* requires-clause of expected(expected<U, G>&&); T_from_U and E_from_G
\* are T from U&& and E from G&&.
ConvMoveCtorEnabled(q) ==
    /\ strict_v(q.EXTL_STRICT_CONSTRAINTS, q.T_from_U)
    /\ strict_v(q.EXTL_STRICT_CONSTRAINTS, q.E_from_G)
    /\ \/ q.T_is_bool
       \/ /\ \A w \in WholeForms : w \notin q.T_constructible
          /\ \A w \in WholeForms : w \notin q.T_convertible
    /\ \A w \in WholeForms : w \notin q.unexpected_constructible

\* noexcept(is_nothrow_constructible_v<T, const U&> and
\*          is_nothrow_constructible_v<E, const G&>)
ConvCopyCtorNoexcept(q) == q.T_from_U.nothrow /\ q.E_from_G.nothrow

\* noexcept(is_nothrow_constructible_v<T, U&&> and
\*          not is_nothrow_constructible_v<E, G&&>)
ConvMoveCtorNoexcept(q) == q.T_from_U.nothrow /\ ~q.E_from_G.nothrow

\* The evaluation of the requires-clause and the noexcept-specifier of the
\* converting copy (cat "const&") or move (cat "&&") constructor on the
\* inputs last.query.
ConvCtorQuery(cat) ==
    /\ last.op = "none" /\ last.query \in Queries
    /\ cat \in {"const&", "&&"}
    /\ LET q == last.query IN
       last' = [last EXCEPT
                    !.op = "conv_ctor_query", !.cat = cat,
                    !.retTag = IF cat = "&&" THEN ConvMoveCtorEnabled(q)
                               ELSE ConvCopyCtorEnabled(q),
                    !.noexcept = IF cat = "&&" THEN ConvMoveCtorNoexcept(q)
                                 ELSE ConvCopyCtorNoexcept(q)]
    /\ UNCHANGED <<objvars, aborted>>


\* The form of the whole source that the value constructor's U&& deduces
\* for a source expression of category cat.
SrcForm(cat) ==
    CASE cat = "&" -> "expected&"
      [] cat = "const&" -> "const expected&"
      [] cat = "&&" -> "expected"
      [] OTHER -> "const expected"

\* Mutant: the value constructor without its clause about bool.
ValueCtorEnabled_NoBoolClause(q, cat) ==
    strict_v(q.EXTL_STRICT_CONSTRAINTS,
             [plain |-> SrcForm(cat) \in q.T_constructible,
              nothrow |-> /\ SrcForm(cat) \in q.T_constructible
                          /\ q.T_from_src_nothrow])

\* requires-clause of template <U = T> expected(U&& v) for an argument that
\* is an expected<U, G> other than expected<T, E>: the argument is neither
\* in_place_t, nor expected<T, E>, nor an unexpected; T must be
\* constructible from it under the policy; and T is not bool or the
\* argument is not an expected.
ValueCtorEnabled(q, cat) ==
    /\ strict_v(q.EXTL_STRICT_CONSTRAINTS,
                [plain |-> SrcForm(cat) \in q.T_constructible,
                 nothrow |-> /\ SrcForm(cat) \in q.T_constructible
                             /\ q.T_from_src_nothrow])
    /\ ~q.T_is_bool

\* The constructor overload resolution selects for expected<T, E> dst(src)
\* with src an expected<U, G> of category cat.  The converting move
\* constructor binds non-const rvalues only, the converting copy
\* constructor everything.  Where the value constructor is viable next to
\* a converting one, its deduced parameter binds a non-const lvalue and a
\* const rvalue better; otherwise the converting constructor, the more
\* specialized template, wins.
ResolveFromExpected(q, cat) ==
    LET conv == IF cat = "&&" /\ ConvMoveCtorEnabled(q) THEN "converting_move"
                ELSE IF ConvCopyCtorEnabled(q) THEN "converting_copy"
                ELSE "none"
        val == ValueCtorEnabled(q, cat) IN
    IF val /\ (conv = "none" \/ cat \in {"&", "const&&"}) THEN "value"
    ELSE conv

\* The queries of a build with the lenient policy about types whose
\* constructions may throw, with unexpected<E> constructible from every
\* form of the source or from none, and T not implicitly convertible.
LenientQueries ==
    {q \in Queries :
        /\ ~q.EXTL_STRICT_CONSTRAINTS /\ ~q.T_from_src_nothrow
        /\ ~q.T_from_U.nothrow /\ ~q.E_from_G.nothrow
        /\ q.T_convertible = {}
        /\ q.unexpected_constructible \in {{}, WholeForms}}

\* explicit operator bool() of the source, as the value of a T.
AsValue(b) == IF b THEN 1 ELSE 0

\* expected<T, E> dst(src): the selected constructor runs; no viable
\* constructor makes the declaration ill-formed.  The operation is named
\* after T (bool or another type).
ConstructFromExpected(d, s, cat, q, convT, convE) ==
    /\ ~aborted /\ Fresh(d) /\ Alive(s, "TE")
    /\ LET opname == IF q.T_is_bool THEN "bool_from_expected"
                     ELSE "from_expected"
           sel == ResolveFromExpected(q, cat) IN
       CASE sel = "converting_copy" ->
                FromExpected(opname, d, s, "const&", convT, convE)
         [] sel = "converting_move" ->
                FromExpected(opname, d, s, "&&", convT, convE)
         [] sel = "value" ->
                /\ \E v \in IF q.T_is_bool THEN {AsValue(has_value(s))}
                            ELSE Val :
                       Emplace(d, "TE", TRUE, v, Dead, _value, _error)
                /\ last' = [Snap(opname, cat, s, d) EXCEPT !.name = "value"]
                /\ UNCHANGED aborted
         [] OTHER ->
                /\ last' = [Snap(opname, cat, s, 0) EXCEPT !.illformed = TRUE]
                /\ UNCHANGED <<objvars, aborted>>

----------------------------------------------------------------------------
Next ==
    \/ \E d \in Obj : DefaultCtor(d)
    \/ \E d \in Obj, v \in Val, c \in ConvFns : ValueCtor(d, v, c)
    \/ \E d \in Obj, cat \in Cats, g \in Val, c \in ConvFns :
           UnexpectedCtor(d, cat, g, c)
    \/ \E d \in Obj, a \in Val, c \in ConvFns : InPlaceCtor(d, a, c)
    \/ \E d \in Obj, a \in Val, c \in ConvFns : UnexpectCtor(d, a, c)
    \/ \E d, s \in Obj : CopyCtor(d, s)
    \/ \E d, s \in Obj : MoveCtor(d, s)
    \/ \E d, s \in Obj, cT, cE \in ConvFns : ConvCopyCtor(d, s, cT, cE)
    \/ \E d, s \in Obj, cT, cE \in ConvFns : ConvMoveCtor(d, s, cT, cE)
    \/ \E o \in Obj : Destructor(o)
    \/ \E o \in Obj : HasValue(o)
    \/ \E o \in Obj, cat \in Cats : OperatorArrow(o, cat)
    \/ \E o \in Obj, cat \in Cats : OperatorStar(o, cat)
    \/ \E o \in Obj, cat \in Cats : Value(o, cat)
    \/ \E o \in Obj, cat \in Cats : Error(o, cat)
    \/ \E o \in Obj, cat \in Cats : ValueOr(o, cat)
    \/ \E o \in Obj, cat \in Cats : ErrorOr(o, cat)
    \/ \E d \in Obj : VoidDefaultCtor(d)
    \/ \E d \in Obj, a \in Val, c \in ConvFns : VoidUnexpectCtor(d, a, c)
    \/ \E o \in Obj : VoidDestructor(o)
    \/ \E o \in Obj, cat \in Cats : VoidError(o, cat)
    \/ \E d \in Obj, cat \in Cats, g \in Val : VoidUnexpectedCtor(d, cat, g)
    \/ \E d, s \in Obj, cat \in Cats, trivial \in BOOLEAN :
           VoidCopyCtor(d, s, cat, trivial)
    \/ \E d, s \in Obj, cat \in Cats : VoidConvCtor(d, s, cat)
    \/ \E s \in Obj, cat \in Cats : VoidAndThen(s, cat, NullaryBindFn)
    \/ \E s \in Obj, cat \in Cats : VoidTransform(s, cat, NullaryMapFn)
    \/ \E d, s \in Obj, cat \in Cats, f \in BindFns : AndThen(d, s, cat, f)
    \/ \E d, s \in Obj, cat \in Cats, f \in BindFns : OrElse(d, s, cat, f)
    \/ \E d, s \in Obj, cat \in Cats, f \in MapFns \cup {VoidFn} :
           Transform(d, s, cat, f)
    \/ \E d, s \in Obj, cat \in Cats, f \in MapFns : TransformError(d, s, cat, f)

Spec == Init /\ [][Next]_vars

\* Programs over status<E> and always_success_status.
StatusNext ==
    \/ \E d \in Obj : StatusDefaultCtor(d)
    \/ \E d \in Obj : StatusNullerrCtor(d)
    \/ \E d \in Obj, a \in Val, c \in ConvFns : StatusInPlaceCtor(d, a, c)
    \/ \E d \in Obj, u \in Val, c \in ConvFns : StatusValueCtor(d, u, c)
    \/ \E d, s \in Obj : StatusCopyCtor(d, s)
    \/ \E d, s \in Obj : StatusMoveCtor(d, s)
    \/ \E d, s \in Obj, c \in ConvFns : StatusConvCopyCtor(d, s, c)
    \/ \E d, s \in Obj, c \in ConvFns : StatusConvMoveCtor(d, s, c)
    \/ \E o \in Obj : StatusDestructor(o)
    \/ \E o \in Obj : StatusOk(o)
    \/ \E o \in Obj : StatusBool(o)
    \/ \E o \in Obj, cat \in Cats : StatusError(o, cat)
    \/ \E d \in Obj, name \in UsedNames : AlwaysCtor(d, name)
    \/ \E d, s \in Obj, cat \in Cats : AlwaysCopyMoveCtor(d, s, cat)
    \/ \E o, s \in Obj, cat \in Cats : AlwaysAssign(o, s, cat)
    \/ \E o \in Obj : AlwaysDestructor(o)
    \/ \E o \in Obj : AlwaysOk(o)
    \/ \E o \in Obj : AlwaysBool(o)
    \/ \E o \in Obj : AlwaysError(o)

StatusSpec == Init /\ [][StatusNext]_vars

\* Programs over storage<T>.
StorageNext ==
    \/ \E d \in Obj : StorageCtor(d)
    \/ \E o \in Obj, a \in Val, c \in ConvFns, inplace \in BOOLEAN :
           ConstructAt(o, a, c, inplace)
    \/ \E o \in Obj, v \in Val, inplace \in BOOLEAN : CopyAt(o, v, inplace)
    \/ \E o \in Obj : StorageDestructor(o)

StorageSpec == Init /\ [][StorageNext]_vars

\* Programs over the legacy expected<T, E, H>.
LegacyNext ==
    \/ \E d \in Obj, v \in Val, H \in Handlers : LegacyValueCtor(d, v, H)
    \/ \E d \in Obj, e \in Val, H \in Handlers : LegacyUnexpectedCtor(d, e, H)
    \/ \E d, s \in Obj : LegacyMoveCtor(d, s)
    \/ \E o, s \in Obj : LegacyMoveAssign(o, s)
    \/ \E o \in Obj : LegacyDestructor(o)
    \/ \E o \in Obj : LegacyHasValue(o)
    \/ \E o \in Obj, cat \in Cats : LegacyValue(o, cat)
    \/ \E o \in Obj, cat \in Cats : LegacyError(o, cat)

LegacySpec == Init /\ [][LegacyNext]_vars

\* Compile-time queries: the inputs are drawn at the start, one query is
\* evaluated on them.
TraitInit ==
    /\ st = [o \in Obj |-> "unborn"]
    /\ kind = [o \in Obj |-> "none"]
    /\ _has_value = [o \in Obj |-> FALSE]
    /\ _has_error = [o \in Obj |-> FALSE]
    /\ _value = [o \in Obj |-> Dead]
    /\ _error = [o \in Obj |-> Dead]
    /\ ctorV = [o \in Obj |-> 0]
    /\ ctorE = [o \in Obj |-> 0]
    /\ last \in {[NoTraitLast EXCEPT !.query = q] :
                   q \in Queries \cup StrictInputs}
    /\ aborted = FALSE

TraitNext ==
    \/ \E name \in StrictQueries : StrictQuery(name)
    \/ \E cat \in Cats : ConvCtorQuery(cat)

TraitSpec == TraitInit /\ [][TraitNext]_vars

\* Programs that construct an expected<T, E> from a whole expected<U, G>.
FromExpectedNext ==
    \/ \E d \in Obj, v \in Val, c \in ConvFns : ValueCtor(d, v, c)
    \/ \E d \in Obj, cat \in Cats, g \in Val, c \in ConvFns :
           UnexpectedCtor(d, cat, g, c)
    \/ \E o \in Obj : Destructor(o)
    \/ \E d, s \in Obj, cat \in Cats, q \in LenientQueries, c \in ConvFns :
           ConstructFromExpected(d, s, cat, q, c, c)

FromExpectedSpec == Init /\ [][FromExpectedNext]_vars
----------------------------------------------------------------------------
\* Properties.  d is the object the last operation constructed, s its
\* receiver or source, L the life of the object the last destructor ended.

\* C1: in every state of an expected<T, E> between its construction and its
\* destruction exactly one of the two union members is live, and
\* has_value() is true iff it is the value and false iff it is the error.
C1_TagAgreesWithLivePayload ==
    \A o \in Obj :
        Alive(o, "TE") =>
            /\ (_value[o] # Dead) # (_error[o] # Dead)
            /\ has_value(o) <=> _value[o] # Dead
            /\ ~has_value(o) <=> _error[o] # Dead

\* An error-state object made by a converting move from a live source.
C1_Witness ==
    /\ last.op = "conv_move_ctor"
    /\ Alive(last.src, "TE") /\ Alive(last.dst, "TE")
    /\ ~has_value(last.dst) /\ _error[last.dst] # Dead

\* C2: over the life of an expected<T, E> exactly one payload is constructed
\* and exactly one destroyed, the one the tag names at destruction; an
\* expected<void, E> constructs and destroys its error in the error state
\* and nothing in the ok state; nothing is destroyed twice or left live.
C2_OnePayloadConstructedOneDestroyed ==
    LET L == last.life IN
    /\ \A o \in Obj : Alive(o, "TE") => ctorV[o] + ctorE[o] = 1
    /\ \A o \in Obj : Alive(o, "voidE") =>
           ctorV[o] = 0 /\ ctorE[o] = (IF has_value(o) THEN 0 ELSE 1)
    /\ last.op = "dtor" =>
           /\ L.ctorV + L.ctorE = 1
           /\ L.dtorV = L.ctorV /\ L.dtorE = L.ctorE
           /\ L.dtorV = (IF last.preTag THEN 1 ELSE 0)
           /\ ~L.liveV /\ ~L.liveE
    /\ last.op = "void_dtor" =>
           /\ L.ctorV = 0 /\ L.dtorV = 0
           /\ L.dtorE = L.ctorE
           /\ L.dtorE = (IF last.preTag THEN 0 ELSE 1)
           /\ ~L.liveV /\ ~L.liveE

\* An error-state expected<T, E> is destroyed while another object, built
\* from it or before it, lives on.
C2_Witness ==
    /\ last.op = "dtor" /\ ~last.preTag
    /\ last.life.dtorE = 1 /\ last.life.dtorV = 0
    /\ \E o \in Obj : Alive(o, "TE") /\ ~has_value(o)

\* C3: an expected<T, E> constructed from a value v of type T, by the value
\* constructor or by in_place, has has_value() and value() == v; a
\* default-constructed one has has_value() and value() == T().
C3_ValueConstructionHoldsTheValue ==
    LET d == last.dst IN
    /\ (last.op \in {"value_ctor", "in_place_ctor"} /\ last.conv = IdFn) =>
           /\ Alive(d, "TE") /\ has_value(d)
           /\ ValueChecked(d) /\ _value[d] = last.arg
    /\ last.op = "default_ctor" =>
           /\ Alive(d, "TE") /\ has_value(d)
           /\ ValueChecked(d) /\ _value[d] = DefaultT

\* In-place construction from a value other than T().
C3_Witness ==
    /\ last.op = "in_place_ctor" /\ last.conv = IdFn
    /\ last.arg = MaxVal /\ _value[last.dst] = MaxVal

\* C4: an expected<T, E> constructed from unexpected(e), by const reference
\* or by rvalue, or by unexpect with e, has not has_value() and
\* error() == e, and its value member is never constructed.
C4_ErrorConstructionHoldsTheError ==
    LET d == last.dst IN
    (last.op \in {"unexpected_ctor", "unexpect_ctor"} /\ last.conv = IdFn) =>
        /\ Alive(d, "TE") /\ ~has_value(d)
        /\ ErrorChecked(d) /\ _error[d] = last.arg
        /\ _value[d] = Dead /\ ctorV[d] = 0

\* Construction from an rvalue unexpected.
C4_Witness ==
    /\ last.op = "unexpected_ctor" /\ last.cat = "&&" /\ last.conv = IdFn
    /\ last.arg = MaxVal /\ _error[last.dst] = MaxVal

\* C5: the copy and the move constructor give the destination the source's
\* tag and a payload equal to the source's payload before the call.
C5_CopyMovePreservePayload ==
    LET d == last.dst IN
    last.op \in {"copy_ctor", "move_ctor"} =>
        /\ ~last.asserted
        /\ Alive(d, "TE") /\ has_value(d) = last.preTag
        /\ last.preTag => _value[d] = last.preVal
        /\ ~last.preTag => _error[d] = last.preErr

\* A move of an error that emptied the source: the destination holds what
\* the source held before the call.
C5_Witness ==
    /\ last.op = "move_ctor" /\ ~last.preTag
    /\ last.preErr = MaxVal /\ _error[last.dst] = MaxVal
    /\ _error[last.src] # last.preErr

\* C6: the converting copy / move constructor copies the tag and constructs
\* only the matching member, T(u) from an ok source, E(g) from an error one.
C6_ConvertingConstructionConvertsLivePayload ==
    LET d == last.dst IN
    last.op \in {"conv_copy_ctor", "conv_move_ctor"} =>
        /\ ~last.asserted
        /\ Alive(d, "TE") /\ has_value(d) = last.preTag
        /\ last.preTag =>
               /\ _value[d] = last.conv[last.preVal]
               /\ _error[d] = Dead /\ ctorE[d] = 0
        /\ ~last.preTag =>
               /\ _error[d] = last.convE[last.preErr]
               /\ _value[d] = Dead /\ ctorV[d] = 0

\* A converting copy of an error whose conversion to E changes it, while the
\* value's conversion would not.
C6_Witness ==
    /\ last.op = "conv_copy_ctor" /\ ~last.preTag
    /\ last.convE # IdFn /\ last.conv = IdFn
    /\ _error[last.dst] # last.preErr

\* C7: no operation changes the tag of a constructed object, nor which of
\* its members is live: a moved-from object keeps its tag and its payload.
C7_TagNeverChanges ==
    [][\A o \in Obj :
          (st[o] = "alive" /\ st'[o] = "alive") =>
              /\ _has_value'[o] = _has_value[o]
              /\ (_value'[o] # Dead) = (_value[o] # Dead)
              /\ (_error'[o] # Dead) = (_error[o] # Dead)]_vars

\* and_then on an rvalue receiver left the receiver's value moved-from, with
\* its tag as before.
C7_Witness ==
    /\ last.op = "and_then" /\ last.cat = "&&" /\ last.preTag
    /\ Alive(last.src, "TE") /\ has_value(last.src)
    /\ _value[last.src] # Dead /\ _value[last.src] # last.preVal

\* C8: value(), operator* and operator-> fail their assertion exactly when
\* the object is in the error state, error() exactly when it is in the ok
\* state, in every overload; a failed assertion aborts and returns nothing,
\* a passed one returns the live payload.
C8_DeadChannelReadFailsAssertion ==
    /\ last.op \in {"value", "operator*", "operator->"} =>
           /\ last.asserted <=> ~last.preTag
           /\ ~last.asserted => last.ret = last.preVal /\ last.ret # Dead
    /\ last.op = "error" =>
           /\ last.asserted <=> last.preTag
           /\ ~last.asserted => last.ret = last.preErr /\ last.ret # Dead
    /\ last.asserted => aborted /\ last.ret = Dead

\* value() const&& on an object in the error state.
C8_Witness ==
    /\ last.op = "value" /\ last.cat = "const&&"
    /\ ~last.preTag /\ last.asserted /\ aborted

\* C9: value_or and error_or fail no assertion in either state; value_or
\* returns the value when has_value() and T(d) otherwise, error_or the error
\* when not has_value() and E(d) otherwise.
C9_ValueOrErrorOrTotal ==
    /\ last.op = "value_or" =>
           /\ ~last.asserted /\ ~aborted
           /\ last.ret = (IF last.preTag THEN last.preVal
                          ELSE last.conv[last.arg])
    /\ last.op = "error_or" =>
           /\ ~last.asserted /\ ~aborted
           /\ last.ret = (IF last.preTag THEN last.conv[last.arg]
                          ELSE last.preErr)

\* error_or on an ok object returns the converted fallback.
C9_Witness ==
    /\ last.op = "error_or" /\ last.preTag /\ last.conv # IdFn
    /\ last.ret = last.conv[last.arg] /\ last.ret # last.arg

C11_OrElseLaw ==
    LET d == last.dst IN
    last.op = "or_else" =>
        /\ ~last.asserted /\ st[d] = "alive"
        /\ IF ~last.preTag
           THEN LET r == last.f.fn[last.preErr] IN
                /\ last.fcalls = 1 /\ last.farg = last.preErr
                /\ kind[d] = r.kind /\ has_value(d) = r.tag
                /\ _value[d] = r.val /\ _error[d] = r.err
           ELSE /\ last.fcalls = 0
                /\ kind[d] = last.f.rk /\ has_value(d)
                /\ _value[d] = last.preVal /\ _error[d] = Dead

\* or_else on an rvalue in the error state whose callable recovers: the
\* result is the callable's value.
C11_Witness ==
    /\ last.op = "or_else" /\ last.cat = "&&" /\ ~last.preTag
    /\ last.fcalls = 1 /\ has_value(last.dst)
    /\ _value[last.dst] = last.f.fn[last.preErr].val

\* C12: for a non-void f, ok(v).transform(f) is in the ok state with value
\* f(v), f invoked once; err(e).transform(f) is an expected<U, E> in the
\* error state with error e, f not invoked.
C12_TransformLaw ==
    LET d == last.dst IN
    (last.op = "transform" /\ last.f.rk = "TE") =>
        /\ ~last.asserted /\ Alive(d, "TE")
        /\ IF last.preTag
           THEN /\ last.fcalls = 1 /\ last.farg = last.preVal
                /\ has_value(d)
                /\ _value[d] = last.f.fn[last.preVal] /\ _error[d] = Dead
           ELSE /\ last.fcalls = 0
                /\ ~has_value(d)
                /\ _error[d] = last.preErr /\ _value[d] = Dead

\* transform of an ok object by a callable that changes the value.
C12_Witness ==
    /\ last.op = "transform" /\ last.f.rk = "TE" /\ last.preTag
    /\ last.fcalls = 1 /\ has_value(last.dst)
    /\ _value[last.dst] # last.preVal

C14_RvalueNeverCopies ==
    (/\ last.op \in {"and_then", "or_else", "transform", "transform_error",
                     "value_or", "error_or"}
     /\ last.cat \in {"&&", "const&&"}) =>
        last.copies = 0

\* C14 (amended): the same calls on a non-const rvalue receiver, the &&
\* overloads, copy-construct no T and no E: the live payload they hand on is
\* move-constructed.
C14_NonConstRvalueNeverCopies ==
    (/\ last.op \in {"and_then", "or_else", "transform", "transform_error",
                     "value_or", "error_or"}
     /\ last.cat = "&&") =>
        /\ ~last.asserted
        /\ last.copies = 0
        /\ last.moves = (IF \/ last.op = "value_or" /\ ~last.preTag
                            \/ last.op = "error_or" /\ last.preTag
                         THEN 0 ELSE 1)

\* transform_error && moved the error into the callable and left the
\* receiver's error moved-from.
C14_Witness ==
    /\ last.op = "transform_error" /\ last.cat = "&&" /\ ~last.preTag
    /\ last.moves = 1 /\ last.copies = 0
    /\ _error[last.src] # last.preErr

\* C15: along a chain of and_then / transform calls, once a receiver is in
\* the error state with error e, the result of that step and of every later
\* step is in the error state with error e, and no callable of those steps
\* is invoked.
C15_FirstFailurePropagates ==
    LET d == last.chain.dst IN
    last.chain.len > 0 =>
        /\ st[d] = "alive" /\ ~has_value(d)
        /\ _error[d] = last.chain.err /\ _value[d] = Dead
        /\ last.chain.calls = 0
        /\ last.op \in {"and_then", "transform"} =>
               last.dst = d /\ last.fcalls = 0 /\ ~last.asserted

\* A transform that is at least the third step in a row since the failure
\* still carries the error that entered the chain.
C15_Witness ==
    /\ last.op = "transform" /\ last.chain.len = MaxChain
    /\ last.chain.err = MaxVal /\ _error[last.dst] = MaxVal
    /\ last.preErr = MaxVal /\ last.fcalls = 0

\* C16: on an expected<void, E>, and_then(f) and transform(f) invoke f, with
\* no argument, once when the object is ok and not at all when it is in the
\* error state; in the error state the result is in the error state with the
\* same error; transform on ok yields an ok object holding f()'s result.
C16_VoidAndThenTransform ==
    LET d == last.dst IN
    last.op \in {"void_and_then", "void_transform"} =>
        /\ ~last.illformed
        /\ last.fcalls = (IF last.preTag THEN 1 ELSE 0)
        /\ d # 0 /\ st[d] = "alive"
        /\ ~last.preTag => ~has_value(d) /\ _error[d] = last.preErr
        /\ (last.preTag /\ last.op = "void_transform") =>
               has_value(d) /\ _value[d] = last.f.fn[DefaultT]

\* C17: a default-constructed expected<void, E> has has_value(); one
\* constructed from unexpected(e) or by unexpect with e has not has_value()
\* and error() == e; a copy, a move and a converting copy / move of one in
\* the error state with error e have not has_value() and error() == e.
C17_VoidConstruction ==
    LET d == last.dst IN
    /\ last.op = "void_default_ctor" => Alive(d, "voidE") /\ has_value(d)
    /\ (/\ last.op \in {"void_unexpected_ctor", "void_unexpect_ctor"}
        /\ last.conv = IdFn) =>
           /\ ~last.illformed /\ d # 0 /\ Alive(d, "voidE")
           /\ ~has_value(d) /\ _error[d] = last.arg
    /\ (/\ last.op \in {"void_copy_ctor", "void_move_ctor",
                        "void_conv_copy_ctor", "void_conv_move_ctor"}
        /\ ~last.preTag) =>
           /\ ~last.illformed /\ d # 0 /\ Alive(d, "voidE")
           /\ ~has_value(d) /\ _error[d] = last.preErr

C19_StatusCopyMovePreserves ==
    LET d == last.dst
        s == last.src IN
    last.op \in {"status_copy_ctor", "status_move_ctor",
                 "status_conv_copy_ctor", "status_conv_move_ctor"} =>
        /\ Alive(d, "status") /\ Alive(s, "status")
        /\ ok(s) = last.preTag
        /\ last.preTag => ok(d) /\ _error[d] = Dead /\ ctorE[d] = 0
        /\ ~last.preTag =>
               /\ ~ok(d) /\ _error[d] = last.convE[last.preErr]
               /\ ctorE[d] = 1
               /\ _error[s] \in SourceAfter(last.cat, last.preErr)

\* C19 witness: a converting move construction from a status holding an
\* error built a different error in the destination and left the source
\* with its error flag set.
C19_Witness ==
    /\ last.op = "status_conv_move_ctor" /\ ~last.preTag
    /\ last.convE # IdFn /\ last.preErr = MaxVal
    /\ ~ok(last.dst) /\ _error[last.dst] = last.convE[MaxVal]
    /\ ~ok(last.src)

\* C20: the always-ok type is ok in every state, after any copies, moves
\* and assignments: ok() and the boolean conversion return true, it holds
\* no tag and no error, error() fails its assertion, and an object of it
\* can be declared under each name the repository uses for the type.
C20_AlwaysOk ==
    /\ \A o \in Obj :
           Alive(o, "always") =>
               ~_has_error[o] /\ _error[o] = Dead /\ ctorE[o] = 0
    /\ last.op \in {"always_ok", "always_bool"} => last.retTag
    /\ last.op = "always_error" => last.asserted /\ aborted
    /\ last.op = "always_ctor" =>
           ~last.illformed /\ Alive(last.dst, "always")

\* C21: default-constructing a storage<T> constructs no T, and when a
\* storage that holds one constructed T is destroyed, T's destructor runs
\* exactly once for that occupant.
C21_StorageConstructsNothingDestroysOnce ==
    /\ last.op = "storage_ctor" =>
           /\ Alive(last.dst, "storage")
           /\ _value[last.dst] = Dead /\ ctorV[last.dst] = 0
    /\ (/\ last.op = "storage_dtor"
        /\ last.life.ctorV = 1 /\ last.preVal # Dead) =>
           last.life.dtorV = 1 /\ ~aborted

\* C21 witness: a storage in which exactly one T was constructed has been
\* destroyed.
C21_Witness ==
    /\ last.op = "storage_dtor" /\ last.life.ctorV = 1
    /\ last.preVal = MaxVal /\ last.life.dtorV = 1

\* C27: over any construct_at / copy_at calls on one storage<T> followed
\* by its destruction, T's constructor only runs on a slot that holds no
\* live T and T's destructor only runs on a slot that holds a live T:
\* destroying a storage in which nothing was constructed runs no T
\* destructor, and a second construct_at does not construct over a live
\* occupant.
C27_StorageSlotDiscipline ==
    /\ (/\ last.op \in {"construct_at", "copy_at"}
        /\ last.life.ctorV = 1) => last.preVal = Dead
    /\ last.op = "storage_dtor" =>
           last.life.dtorV = (IF last.preVal # Dead THEN 1 ELSE 0)

C28_LegacyPayloadBalance ==
    /\ last.op = "legacy_dtor" =>
           /\ last.life.dtorV = (IF last.preTag THEN 1 ELSE 0)
           /\ last.life.dtorE = (IF last.preTag THEN 0 ELSE 1)
           /\ last.life.ctorV = last.life.dtorV
           /\ last.life.ctorE = last.life.dtorE
    /\ \A o \in Obj :
           (st[o] = "alive" /\ kind[o] \in LegacyKinds) =>
               ctorV[o] + ctorE[o] = 1

\* C29: in the legacy expected<T, E, H>, every call handler(err) made by
\* value() or error() happens in the error state with err the constructed
\* error, and every reference value() or error() returns after a returning
\* handler refers to a live payload.
C29_LegacyHandlerGetsLiveError ==
    (last.op \in {"legacy_value", "legacy_error"} /\ last.fcalls = 1) =>
        /\ ~last.preTag /\ last.farg # Dead /\ last.farg = last.preErr
        /\ ~aborted => last.ret # Dead

\* C23: transform with a void-returning f: on an ok object f is invoked
\* once with the value and the result is an expected<void, E> with
\* has_value() and no payload; on an error object f is not invoked and the
\* result is an expected<void, E> without has_value() and with the same
\* error.
C23_TransformVoidLaw ==
    LET d == last.dst IN
    (last.op = "transform" /\ last.f.rk = "voidE") =>
        /\ ~last.asserted /\ Alive(d, "voidE") /\ _value[d] = Dead
        /\ IF last.preTag
           THEN /\ last.fcalls = 1 /\ last.farg = last.preVal
                /\ has_value(d) /\ _error[d] = Dead
                /\ ctorV[d] = 0 /\ ctorE[d] = 0
           ELSE /\ last.fcalls = 0
                /\ ~has_value(d) /\ _error[d] = last.preErr

\* C23 witness: transform by a void-returning callable on an ok object
\* gave an ok expected<void, E>, and the callable received the value.
C23_Witness ==
    /\ last.op = "transform" /\ last.f.rk = "voidE" /\ last.preTag
    /\ last.fcalls = 1 /\ last.farg = MaxVal
    /\ Alive(last.dst, "voidE") /\ has_value(last.dst)

C26_StrictnessGating ==
    LET q == last.query IN
    last.op \in StrictQueries =>
        /\ q.EXTL_STRICT_CONSTRAINTS => last.retTag = q.cap.nothrow
        /\ ~q.EXTL_STRICT_CONSTRAINTS => last.retTag = q.cap.plain
        /\ strict_v(TRUE, q.cap) => strict_v(FALSE, q.cap)

\* C26 witness: a query the strict policy rejects and the lenient accepts
\* has been evaluated under the strict policy.
C26_Witness ==
    /\ last.op = "strict_invocable_v"
    /\ last.query.EXTL_STRICT_CONSTRAINTS /\ ~last.retTag
    /\ last.query.cap.plain /\ ~last.query.cap.nothrow

\* C30: expected(expected<U, G>&&) is declared non-throwing exactly when
\* constructing T from U&& and E from G&& are both non-throwing, as the
\* converting copy constructor is for const U& and const G&.
C30_ConvertingCtorNoexcept ==
    last.op = "conv_ctor_query" =>
        last.noexcept = (/\ last.query.T_from_U.nothrow
                         /\ last.query.E_from_G.nothrow)

\* C24: when T is bool, constructing expected<bool, E> from a whole
\* expected<U, G> never takes the value constructor: where the
\* construction compiles it is the converting constructor, the
\* destination's tag equals the source's, and an error-state source gives
\* an error-state destination with the converted error, never an ok one
\* holding the source's conversion to bool.
C24_BoolTakesConvertingCtor ==
    LET d == last.dst IN
    last.op = "bool_from_expected" =>
        /\ last.name # "value"
        /\ ~last.illformed =>
               /\ Alive(d, "TE") /\ has_value(d) = last.preTag
               /\ last.preTag =>
                      _value[d] = last.conv[last.preVal] /\ _error[d] = Dead
               /\ ~last.preTag =>
                      _error[d] = last.convE[last.preErr] /\ _value[d] = Dead

\* C24 witness: an expected<bool, E> constructed from a non-const lvalue
\* expected<U, G> in the error state is in the error state with the
\* converted error.
C24_Witness ==
    /\ last.op = "bool_from_expected" /\ ~last.illformed /\ ~last.preTag
    /\ last.convE # IdFn /\ ~has_value(last.dst)
    /\ _error[last.dst] = last.convE[last.preErr]
====
